---------------------------- MODULE Spec2Model ----------------------------
(***************************************************************************)
(* Tools of the Metabase MCP server (src/server.py).  The dashboard tools   *)
(* add_card_to_dashboard, remove_card_from_dashboard, add_dashboard_filter,*)
(* update_dashboard_cards and copy_dashboard_tab are read-modify-write     *)
(* cycles against the remote dashboard; execute_mbql_query and             *)
(* create_mbql_card build an MBQL query and post it; create_metric and     *)
(* update_metric write metric cards; search_metrics_for_table reads them;  *)
(* create_card, create_card_with_metrics, create_dashboard and             *)
(* update_dashboard build a payload and send it.  All reach the remote     *)
(* platform through metabase_client.request, which logs in when it holds   *)
(* no session token.  JSON objects are functions from key                  *)
(* strings to values, JSON arrays are sequences, dict.get(k, d) is         *)
(* Get(d, k, dflt).                                                        *)
(***************************************************************************)
EXTENDS Integers, Sequences, FiniteSets, TLC

VARIABLES
    dash,     \* remote state: dashboard id -> dashboard document
    cards,    \* remote state: card id -> card document
    pc,       \* per tool invocation slot: the await it is suspended at
    args,     \* per slot: the tool called and its arguments
    loc,      \* per slot: the local variables of the running handler
    result,   \* per slot: what the last invocation returned or raised
    calls,    \* per slot: the Gateway calls of the current invocation
    ninv,     \* number of tool invocations started so far
    client,   \* metabase_client: auth_method, api_key, session_token
    http      \* the HTTP requests metabase_client has sent, where request()
              \* itself is stepped

vars == <<dash, cards, pc, args, loc, result, calls, ninv, client, http>>

-----------------------------------------------------------------------------
(* Bounds of the model *)

MaxInvocations == 2

\* number of cards stored before the first search_metrics_for_table call
MaxStored == 2

-----------------------------------------------------------------------------
(* Python helpers *)

PyNone == "<None>"

EmptyDict == [k \in {} |-> k]

HasKey(d, k) == k \in DOMAIN d

Get(d, k, default) == IF k \in DOMAIN d THEN d[k] ELSE default

SetKey(d, k, v) == [x \in (DOMAIN d) \cup {k} |-> IF x = k THEN v ELSE d[x]]

Range(s) == {s[i] : i \in DOMAIN s}

RECURSIVE SetMin(_)
SetMin(S) ==
    LET x == CHOOSE y \in S : TRUE
    IN  IF S = {x} THEN x
        ELSE LET m == SetMin(S \ {x}) IN IF x < m THEN x ELSE m

\* min(xs, default=d)
MinDefault(xs, d) == IF Len(xs) = 0 THEN d ELSE SetMin(Range(xs))

\* min(a, b)
Min2(a, b) == IF a < b THEN a ELSE b

\* variant: dashcards that have no positive id yet are not read
DashcardsOf_Saved(dashboard) ==
    SelectSeq(Get(dashboard, "dashcards", Get(dashboard, "ordered_cards", <<>>)),
              LAMBDA dc : Get(dc, "id", 0) > 0)

\* dashboard.get("dashcards", dashboard.get("ordered_cards", []))
DashcardsOf(dashboard) ==
    Get(dashboard, "dashcards", Get(dashboard, "ordered_cards", <<>>))

-----------------------------------------------------------------------------
(* add_card_to_dashboard *)

\* parameter_mappings=None is passed as the empty list: both are falsy for "or"
NewDashcard(card_id, size_x, size_y, row, col, parameter_mappings) ==
    [id |-> -1,
     card_id |-> card_id,
     size_x |-> size_x,
     size_y |-> size_y,
     row |-> row,
     col |-> col,
     parameter_mappings |->
        IF Len(parameter_mappings) = 0 THEN <<>> ELSE parameter_mappings]

\* variant: a card already placed is not placed again
AddCardPayload_Dedup(existing_dashcards, new_dashcard) ==
    IF \E i \in 1..Len(existing_dashcards) :
            existing_dashcards[i].card_id = new_dashcard.card_id
    THEN [dashcards |-> existing_dashcards]
    ELSE [dashcards |-> Append(existing_dashcards, new_dashcard)]

\* variant: only the new dashcard is written
AddCardPayload_OnlyNew(existing_dashcards, new_dashcard) ==
    [dashcards |-> <<new_dashcard>>]

AddCardPayload(existing_dashcards, new_dashcard) ==
    [dashcards |-> Append(existing_dashcards, new_dashcard)]

-----------------------------------------------------------------------------
(* remove_card_from_dashboard *)

\* variant: the filter compares the card id instead of the dashcard id
FilteredDashcards_ByCard(existing_dashcards, dashcard_id) ==
    SelectSeq(existing_dashcards,
              LAMBDA dc : ~(HasKey(dc, "card_id") /\ dc.card_id = dashcard_id))

FilteredDashcards(existing_dashcards, dashcard_id) ==
    SelectSeq(existing_dashcards,
              LAMBDA dc : ~(HasKey(dc, "id") /\ dc.id = dashcard_id))

\* variant: the length test never fires
DashcardNotFound_Never(filtered_dashcards, existing_dashcards) ==
    Len(filtered_dashcards) > Len(existing_dashcards)

DashcardNotFound(filtered_dashcards, existing_dashcards) ==
    Len(filtered_dashcards) = Len(existing_dashcards)

RemoveCardPayload(filtered_dashcards) == [dashcards |-> filtered_dashcards]

-----------------------------------------------------------------------------
(* copy_dashboard_tab *)

\* variant: the first tab is taken whatever its id
FindTab_First(source_tabs, tab_id) ==
    IF Len(source_tabs) = 0 THEN <<>> ELSE <<source_tabs[1]>>

\* next((t for t in source_tabs if t.get("id") == tab_id), None), as a list
\* holding the first match or nothing
FindTab(source_tabs, tab_id) ==
    LET hits == SelectSeq(source_tabs,
                          LAMBDA t : HasKey(t, "id") /\ t.id = tab_id)
    IN  IF Len(hits) = 0 THEN <<>> ELSE <<hits[1]>>

\* "if not source_tab": no match, or a match that is an empty dict
TabMissing(found) ==
    IF Len(found) = 0 THEN TRUE ELSE DOMAIN found[1] = {}

\* new_tab_name or source_tab.get("name", "Copied Tab")
TabName(new_tab_name, source_tab) ==
    IF new_tab_name # "" THEN new_tab_name
    ELSE Get(source_tab, "name", "Copied Tab")

\* variant: every dashcard of the source is taken
TabDashcards_All(source_dashcards, tab_id) == source_dashcards

TabDashcards(source_dashcards, tab_id) ==
    SelectSeq(source_dashcards,
              LAMBDA dc : HasKey(dc, "dashboard_tab_id")
                          /\ dc.dashboard_tab_id = tab_id)

\* variant: the result is not clamped to -1
NewTabId_NoClamp(target_tabs) ==
    LET existing_tab_ids ==
            [i \in 1..Len(target_tabs) |-> Get(target_tabs[i], "id", 0)]
    IN  MinDefault(existing_tab_ids, 0) - 1

\* variant: every copied tab gets id -1
NewTabId_Constant(target_tabs) == 0 - 1

NewTabId(target_tabs) ==
    LET existing_tab_ids ==
            [i \in 1..Len(target_tabs) |-> Get(target_tabs[i], "id", 0)]
    IN  Min2(MinDefault(existing_tab_ids, 0) - 1, -1)

NewTab(new_tab_id, tab_name) == [id |-> new_tab_id, name |-> tab_name]

UsedParamIds(tab_dashcards) ==
    UNION { { Get(m, "parameter_id", PyNone) :
                m \in Range(Get(tab_dashcards[i], "parameter_mappings", <<>>)) } :
            i \in 1..Len(tab_dashcards) }

\* an id that is a number rather than a string
IsNumber(v) ==
    Head(ToString(v)) \in {"-", "0", "1", "2", "3", "4", "5", "6", "7", "8", "9"}

\* "{param_id}" in an f-string: str(param_id), which is "None" for a
\* parameter without id and the digits of an id that is a number
PyStr(v) ==
    IF IsNumber(v) THEN ToString(v)
    ELSE IF v = PyNone THEN "None" ELSE v

\* "new_param_id in existing_param_ids": the candidate is a string, equal to
\* no id that is a number
InIds(new_param_id, existing_param_ids) ==
    \E e \in existing_param_ids : ~IsNumber(e) /\ e = new_param_id

\* the while loop: f"{param_id}_copy_{counter}" until not in existing_param_ids
RECURSIVE CopyIdLoop(_, _, _, _)
CopyIdLoop(param_id, new_param_id, counter, existing_param_ids) ==
    IF InIds(new_param_id, existing_param_ids)
    THEN CopyIdLoop(param_id,
                    PyStr(param_id) \o "_copy_" \o ToString(counter),
                    counter + 1, existing_param_ids)
    ELSE new_param_id

\* variant: the first candidate is taken without looking at the target
FreshParamId_NoLoop(param_id, existing_param_ids) ==
    PyStr(param_id) \o "_copy"

FreshParamId(param_id, existing_param_ids) ==
    CopyIdLoop(param_id, PyStr(param_id) \o "_copy", 1, existing_param_ids)

\* the loop over source_params, from index i with the accumulated
\* [add |-> params_to_add, map |-> param_id_mapping]
RECURSIVE CopyParamsLoop(_, _, _, _, _)
CopyParamsLoop(source_params, i, used_param_ids, existing_param_ids, acc) ==
    IF i > Len(source_params) THEN acc
    ELSE
      LET param == source_params[i]
          param_id == Get(param, "id", PyNone)
          step ==
            IF param_id \in used_param_ids
            THEN IF param_id \in existing_param_ids
                 THEN LET new_param_id ==
                            FreshParamId(param_id, existing_param_ids)
                      IN  [add |-> Append(acc.add,
                                          SetKey(param, "id", new_param_id)),
                           map |-> SetKey(acc.map, param_id, new_param_id)]
                 ELSE [add |-> Append(acc.add, param), map |-> acc.map]
            ELSE acc
      IN  CopyParamsLoop(source_params, i + 1, used_param_ids,
                         existing_param_ids, step)

\* variant: parameters are copied whatever include_filters says
CopyParams_IgnoreFlag(include_filters, used_param_ids, source_dash, target_params) ==
    IF used_param_ids # {}
    THEN LET source_params == Get(source_dash, "parameters", <<>>)
             existing_param_ids ==
                { Get(p, "id", PyNone) : p \in Range(target_params) }
         IN  CopyParamsLoop(source_params, 1, used_param_ids,
                            existing_param_ids,
                            [add |-> <<>>, map |-> EmptyDict])
    ELSE [add |-> <<>>, map |-> EmptyDict]

\* lines 1931-1957: [add |-> params_to_add, map |-> param_id_mapping]
CopyParams(include_filters, used_param_ids, source_dash, target_params) ==
    IF include_filters /\ used_param_ids # {}
    THEN LET source_params == Get(source_dash, "parameters", <<>>)
             existing_param_ids ==
                { Get(p, "id", PyNone) : p \in Range(target_params) }
         IN  CopyParamsLoop(source_params, 1, used_param_ids,
                            existing_param_ids,
                            [add |-> <<>>, map |-> EmptyDict])
    ELSE [add |-> <<>>, map |-> EmptyDict]

\* variant: numbering always starts at -1
NextDcId_Fixed(target_dashcards) == 0 - 1

NextDcId(target_dashcards) ==
    LET existing_dc_ids ==
            [i \in 1..Len(target_dashcards) |-> Get(target_dashcards[i], "id", 0)]
    IN  Min2(MinDefault(existing_dc_ids, 0) - 1, -1)

\* variant: the mapping keeps the card reference it had
CopyMapping_KeepCard(mapping, dc, param_id_mapping) ==
    LET old_param_id == Get(mapping, "parameter_id", PyNone)
    IN  IF old_param_id \in DOMAIN param_id_mapping
        THEN SetKey(mapping, "parameter_id", param_id_mapping[old_param_id])
        ELSE mapping

CopyMapping(mapping, dc, param_id_mapping) ==
    LET old_param_id == Get(mapping, "parameter_id", PyNone)
        renamed == IF old_param_id \in DOMAIN param_id_mapping
                   THEN SetKey(mapping, "parameter_id",
                               param_id_mapping[old_param_id])
                   ELSE mapping
    IN  SetKey(renamed, "card_id", Get(dc, "card_id", PyNone))

CopyDashcard(dc, next_dc_id, new_tab_id, param_id_mapping) ==
    LET mappings == Get(dc, "parameter_mappings", <<>>)
    IN  [id |-> next_dc_id,
         card_id |-> Get(dc, "card_id", PyNone),
         dashboard_tab_id |-> new_tab_id,
         row |-> Get(dc, "row", 0),
         col |-> Get(dc, "col", 0),
         size_x |-> Get(dc, "size_x", 4),
         size_y |-> Get(dc, "size_y", 3),
         visualization_settings |-> Get(dc, "visualization_settings", EmptyDict),
         parameter_mappings |->
            [j \in 1..Len(mappings) |->
                CopyMapping(mappings[j], dc, param_id_mapping)]]

\* the loop over tab_dashcards, from index i with the dashcards built so far
RECURSIVE CopyDashcardsLoop(_, _, _, _, _, _)
CopyDashcardsLoop(tab_dashcards, i, next_dc_id, new_tab_id, param_id_mapping, new_dashcards) ==
    IF i > Len(tab_dashcards) THEN new_dashcards
    ELSE CopyDashcardsLoop(
            tab_dashcards, i + 1, next_dc_id - 1, new_tab_id, param_id_mapping,
            Append(new_dashcards,
                   CopyDashcard(tab_dashcards[i], next_dc_id, new_tab_id,
                                param_id_mapping)))

CopyDashcards(tab_dashcards, next_dc_id, new_tab_id, param_id_mapping) ==
    CopyDashcardsLoop(tab_dashcards, 1, next_dc_id, new_tab_id,
                      param_id_mapping, <<>>)

\* variant: the dashcards written are the new ones only
CopyPayload_Overwrite(target_tabs, target_dashcards, target_params, new_tab, new_dashcards, params_to_add) ==
    LET base == [tabs |-> target_tabs \o <<new_tab>>,
                 dashcards |-> new_dashcards]
    IN  IF Len(params_to_add) > 0
        THEN SetKey(base, "parameters", target_params \o params_to_add)
        ELSE base

CopyPayload(target_tabs, target_dashcards, target_params, new_tab, new_dashcards, params_to_add) ==
    LET base == [tabs |-> target_tabs \o <<new_tab>>,
                 dashcards |-> target_dashcards \o new_dashcards]
    IN  IF Len(params_to_add) > 0
        THEN SetKey(base, "parameters", target_params \o params_to_add)
        ELSE base

\* everything copy_dashboard_tab computes between the two reads and the write
CopyLocals(a, source_dash, target_dash) ==
    LET source_tab == FindTab(Get(source_dash, "tabs", <<>>), a.tab_id)[1]
        tab_name == TabName(a.new_tab_name, source_tab)
        tab_dashcards == TabDashcards(DashcardsOf(source_dash), a.tab_id)
        target_tabs == Get(target_dash, "tabs", <<>>)
        target_dashcards == DashcardsOf(target_dash)
        target_params == Get(target_dash, "parameters", <<>>)
        new_tab_id == NewTabId(target_tabs)
        new_tab == NewTab(new_tab_id, tab_name)
        used_param_ids == UsedParamIds(tab_dashcards)
        copied == CopyParams(a.include_filters, used_param_ids, source_dash,
                             target_params)
        next_dc_id == NextDcId(target_dashcards)
        new_dashcards == CopyDashcards(tab_dashcards, next_dc_id, new_tab_id,
                                       copied.map)
    IN  [source_dash |-> source_dash,
         target_dash |-> target_dash,
         tab_dashcards |-> tab_dashcards,
         target_tabs |-> target_tabs,
         target_dashcards |-> target_dashcards,
         target_params |-> target_params,
         new_tab |-> new_tab,
         used_param_ids |-> used_param_ids,
         params_to_add |-> copied.add,
         param_id_mapping |-> copied.map,
         new_dashcards |-> new_dashcards,
         payload |-> CopyPayload(target_tabs, target_dashcards, target_params,
                                 new_tab, new_dashcards, copied.add)]

-----------------------------------------------------------------------------
(* Optional arguments: None is the empty list, a given value v is <<v>> *)

Absent == <<>>

Given(v) == <<v>>

\* "x is not None"
IsGiven(o) == Len(o) = 1

\* "if x:" for a list argument that may be None
TruthyList(o) == IF Len(o) = 0 THEN FALSE ELSE Len(o[1]) > 0

\* "if x:" for an int argument that may be None
TruthyInt(o) == IF Len(o) = 0 THEN FALSE ELSE o[1] # 0

\* "if x:" for a dict argument that may be None
TruthyDict(o) == IF Len(o) = 0 THEN FALSE ELSE DOMAIN o[1] # {}

\* "if x:" for a str argument that may be None
TruthyStr(o) == IF Len(o) = 0 THEN FALSE ELSE o[1] # ""

-----------------------------------------------------------------------------
(* execute_mbql_query and create_mbql_card *)

\* variant: the limit is left out of the query
ExecuteMbqlQuery_NoLimit(a) ==
    LET q0 == "source-table" :> a.source_table_id
        q1 == IF TruthyList(a.aggregations)
              THEN SetKey(q0, "aggregation", a.aggregations[1]) ELSE q0
        q2 == IF TruthyList(a.breakouts)
              THEN SetKey(q1, "breakout", a.breakouts[1]) ELSE q1
        q3 == IF TruthyList(a.filters)
              THEN SetKey(q2, "filter", a.filters[1]) ELSE q2
        q4 == IF TruthyList(a.order_by)
              THEN SetKey(q3, "order-by", a.order_by[1]) ELSE q3
        q6 == IF TruthyDict(a.expressions)
              THEN SetKey(q4, "expressions", a.expressions[1]) ELSE q4
        q7 == IF TruthyList(a.joins)
              THEN SetKey(q6, "joins", a.joins[1]) ELSE q6
    IN  IF TruthyList(a.fields) THEN SetKey(q7, "fields", a.fields[1]) ELSE q7

\* execute_mbql_query, lines 561-594: mbql_query
ExecuteMbqlQuery(a) ==
    LET q0 == "source-table" :> a.source_table_id
        q1 == IF TruthyList(a.aggregations)
              THEN SetKey(q0, "aggregation", a.aggregations[1]) ELSE q0
        q2 == IF TruthyList(a.breakouts)
              THEN SetKey(q1, "breakout", a.breakouts[1]) ELSE q1
        q3 == IF TruthyList(a.filters)
              THEN SetKey(q2, "filter", a.filters[1]) ELSE q2
        q4 == IF TruthyList(a.order_by)
              THEN SetKey(q3, "order-by", a.order_by[1]) ELSE q3
        q5 == IF TruthyInt(a.limit)
              THEN SetKey(q4, "limit", a.limit[1]) ELSE q4
        q6 == IF TruthyDict(a.expressions)
              THEN SetKey(q5, "expressions", a.expressions[1]) ELSE q5
        q7 == IF TruthyList(a.joins)
              THEN SetKey(q6, "joins", a.joins[1]) ELSE q6
    IN  IF TruthyList(a.fields) THEN SetKey(q7, "fields", a.fields[1]) ELSE q7

ExecuteMbqlPayload(a, mbql_query) ==
    [database |-> a.database_id, type |-> "query", query |-> mbql_query]

\* create_mbql_card, lines 959-992: mbql_query
CreateMbqlCardQuery(a) ==
    LET q0 == "source-table" :> a.source_table_id
        q1 == IF TruthyList(a.aggregations)
              THEN SetKey(q0, "aggregation", a.aggregations[1]) ELSE q0
        q2 == IF TruthyList(a.breakouts)
              THEN SetKey(q1, "breakout", a.breakouts[1]) ELSE q1
        q3 == IF TruthyList(a.filters)
              THEN SetKey(q2, "filter", a.filters[1]) ELSE q2
        q4 == IF TruthyList(a.order_by)
              THEN SetKey(q3, "order-by", a.order_by[1]) ELSE q3
        q5 == IF TruthyInt(a.limit)
              THEN SetKey(q4, "limit", a.limit[1]) ELSE q4
        q6 == IF TruthyDict(a.expressions)
              THEN SetKey(q5, "expressions", a.expressions[1]) ELSE q5
        q7 == IF TruthyList(a.joins)
              THEN SetKey(q6, "joins", a.joins[1]) ELSE q6
    IN  IF TruthyList(a.fields) THEN SetKey(q7, "fields", a.fields[1]) ELSE q7

\* lines 994-1010: visualization_settings or {}, description and
\* collection_id only when given
CreateMbqlCardPayload(a, mbql_query) ==
    LET p0 == [name |-> a.name,
               database_id |-> a.database_id,
               dataset_query |-> [database |-> a.database_id,
                                  type |-> "query",
                                  query |-> mbql_query],
               display |-> a.display,
               visualization_settings |->
                  IF TruthyDict(a.visualization_settings)
                  THEN a.visualization_settings[1] ELSE EmptyDict]
        p1 == IF TruthyStr(a.description)
              THEN SetKey(p0, "description", a.description[1]) ELSE p0
    IN  IF IsGiven(a.collection_id)
        THEN SetKey(p1, "collection_id", a.collection_id[1]) ELSE p1

-----------------------------------------------------------------------------
(* create_metric and update_metric *)

\* del d[k] when present
RemoveKey(d, k) == [x \in (DOMAIN d) \ {k} |-> d[x]]

\* variant: the display-name is left empty
NamedAggregation_NoDisplayName(aggregation, name) ==
    <<"aggregation-options", aggregation,
      ("name" :> name @@ "display-name" :> "")>>

\* create_metric, lines 1689-1693: named_aggregation
NamedAggregation(aggregation, name) ==
    <<"aggregation-options", aggregation,
      ("name" :> name @@ "display-name" :> name)>>

\* create_metric, lines 1695-1714: mbql_query
CreateMetricQuery(a) ==
    LET q0 == ("source-table" :> a.source_table_id
               @@ "aggregation" :> <<NamedAggregation(a.aggregation, a.name)>>)
        q1 == IF TruthyList(a.filters)
              THEN SetKey(q0, "filter", a.filters[1]) ELSE q0
        breakout_options ==
            IF TruthyStr(a.default_time_dimension_unit)
            THEN "temporal-unit" :> a.default_time_dimension_unit[1]
            ELSE EmptyDict
    IN  IF TruthyInt(a.default_time_dimension_field_id)
        THEN SetKey(q1, "breakout",
                    << <<"field", a.default_time_dimension_field_id[1],
                         IF DOMAIN breakout_options # {}
                         THEN breakout_options ELSE PyNone>> >>)
        ELSE q1

\* create_metric, lines 1716-1733: payload
CreateMetricPayload(a, mbql_query) ==
    LET p0 == [name |-> a.name,
               type |-> "metric",
               dataset_query |-> [database |-> a.database_id,
                                  type |-> "query",
                                  query |-> mbql_query],
               display |-> IF ~TruthyInt(a.default_time_dimension_field_id)
                           THEN "scalar" ELSE "line",
               visualization_settings |-> EmptyDict]
        p1 == IF TruthyStr(a.description)
              THEN SetKey(p0, "description", a.description[1]) ELSE p0
    IN  IF IsGiven(a.collection_id)
        THEN SetKey(p1, "collection_id", a.collection_id[1]) ELSE p1

\* update_metric, lines 1777-1781
EffectiveName(a, current) ==
    IF IsGiven(a.name) THEN a.name[1] ELSE Get(current, "name", "")

\* update_metric, line 1804: query.get("aggregation", [[]])
StoredAggregations(query) == Get(query, "aggregation", <<<<>>>>)

\* variant: an already wrapped aggregation is wrapped once more
RenamedAggregation_Rewrap(query, effective_name) ==
    LET existing_agg == StoredAggregations(query)[1]
    IN  IF Len(existing_agg) > 0
        THEN SetKey(query, "aggregation",
                    << <<"aggregation-options", existing_agg,
                         ("name" :> effective_name
                          @@ "display-name" :> effective_name)>> >>)
        ELSE query

\* update_metric, lines 1802-1818: only the name changed
RenamedAggregation(query, effective_name) ==
    LET existing_agg == StoredAggregations(query)[1]
    IN  IF Len(existing_agg) = 0 THEN query
        ELSE IF existing_agg[1] = "aggregation-options"
        THEN SetKey(query, "aggregation",
                    << [existing_agg EXCEPT ![3] =
                          SetKey(SetKey(@, "name", effective_name),
                                 "display-name", effective_name)] >>)
        ELSE SetKey(query, "aggregation",
                    << <<"aggregation-options", existing_agg,
                         ("name" :> effective_name
                          @@ "display-name" :> effective_name)>> >>)

\* variant: a new aggregation is stored without its name
UpdateMetricQuery_Unnamed(a, current) ==
    LET query == Get(Get(current, "dataset_query", EmptyDict), "query", EmptyDict)
    IN  IF IsGiven(a.aggregation)
        THEN SetKey(query, "aggregation", <<a.aggregation[1]>>)
        ELSE IF IsGiven(a.name)
             THEN RenamedAggregation(query, EffectiveName(a, current))
             ELSE query

\* update_metric, lines 1791-1825: query
UpdateMetricQuery(a, current) ==
    LET dataset_query == Get(current, "dataset_query", EmptyDict)
        query == Get(dataset_query, "query", EmptyDict)
        effective_name == EffectiveName(a, current)
        q1 == IF IsGiven(a.aggregation)
              THEN SetKey(query, "aggregation",
                          << <<"aggregation-options", a.aggregation[1],
                               ("name" :> effective_name
                                @@ "display-name" :> effective_name)>> >>)
              ELSE IF IsGiven(a.name)
                   THEN RenamedAggregation(query, effective_name)
                   ELSE query
    IN  IF IsGiven(a.filters)
        THEN IF Len(a.filters[1]) > 0
             THEN SetKey(q1, "filter", a.filters[1])
             ELSE RemoveKey(q1, "filter")
        ELSE q1

\* update_metric, lines 1779-1829: payload
UpdateMetricPayload(a, current) ==
    LET p0 == EmptyDict
        p1 == IF IsGiven(a.name) THEN SetKey(p0, "name", a.name[1]) ELSE p0
        p2 == IF IsGiven(a.description)
              THEN SetKey(p1, "description", a.description[1]) ELSE p1
        p3 == IF IsGiven(a.collection_id)
              THEN SetKey(p2, "collection_id", a.collection_id[1]) ELSE p2
        p4 == IF IsGiven(a.archived)
              THEN SetKey(p3, "archived", a.archived[1]) ELSE p3
    IN  IF IsGiven(a.aggregation) \/ IsGiven(a.filters) \/ IsGiven(a.name)
        THEN SetKey(p4, "dataset_query",
                    SetKey(Get(current, "dataset_query", EmptyDict), "query",
                           UpdateMetricQuery(a, current)))
        ELSE p4

\* update_metric, lines 1795-1829: dataset_query and query are the objects
\* inside current, so what is written into them is written into the local
\* current; without a "dataset_query" in current both are fresh dicts
CurrentAfter(a, current) ==
    IF (IsGiven(a.aggregation) \/ IsGiven(a.filters) \/ IsGiven(a.name))
       /\ HasKey(current, "dataset_query")
    THEN SetKey(current, "dataset_query",
                SetKey(current["dataset_query"], "query",
                       UpdateMetricQuery(a, current)))
    ELSE current

\* what update_metric raises before its write: IndexError when only the name
\* changes and the stored aggregation list is empty or its wrapped clause
\* has no options, ValueError when no field is given; "" when it goes on
UpdateMetricError(a, current) ==
    LET query == Get(Get(current, "dataset_query", EmptyDict), "query", EmptyDict)
        aggs == StoredAggregations(query)
        renames == ~IsGiven(a.aggregation) /\ IsGiven(a.name)
    IN  IF renames /\ Len(aggs) = 0 THEN "IndexError"
        ELSE IF renames /\ Len(aggs[1]) \in {1, 2}
                /\ aggs[1][1] = "aggregation-options" THEN "IndexError"
        ELSE IF DOMAIN UpdateMetricPayload(a, current) = {} THEN "ValueError"
        ELSE ""

-----------------------------------------------------------------------------
(* search_metrics_for_table *)

\* line 1552: [c for c in all_cards if c.get("type") == "metric"]
MetricCards(all_cards) ==
    SelectSeq(all_cards, LAMBDA c : HasKey(c, "type") /\ c["type"] = "metric")

\* lines 1557-1565: the metric is kept when its source-table is table_id,
\* unless "database_id and dataset_query.get('database') != database_id"
MatchesTable(a, metric) ==
    LET dataset_query == Get(metric, "dataset_query", EmptyDict)
        query == Get(dataset_query, "query", EmptyDict)
    IN  /\ HasKey(query, "source-table")
        /\ query["source-table"] = a.table_id
        /\ ~(/\ TruthyInt(a.database_id)
             /\ ~(/\ HasKey(dataset_query, "database")
                  /\ dataset_query["database"] = a.database_id[1]))

\* line 1568: query.get("aggregation", [[]])[0] if query.get("aggregation")
\* else None
FirstAggregation(query) ==
    IF HasKey(query, "aggregation")
    THEN IF Len(query["aggregation"]) > 0
         THEN Given(query["aggregation"][1]) ELSE Absent
    ELSE Absent

\* variant: an empty first clause is reported as None
AggType_EmptyAsNone(aggregation) ==
    IF IsGiven(aggregation)
    THEN IF Len(aggregation[1]) > 0 THEN aggregation[1][1] ELSE PyNone
    ELSE "unknown"

\* line 1569: aggregation[0] if aggregation else "unknown"
AggType(aggregation) ==
    IF IsGiven(aggregation)
    THEN IF Len(aggregation[1]) > 0 THEN aggregation[1][1] ELSE "unknown"
    ELSE "unknown"

\* lines 1571-1578: the summary appended for a matching metric
MetricSummary(metric) ==
    LET query == Get(Get(metric, "dataset_query", EmptyDict), "query", EmptyDict)
    IN  [id |-> Get(metric, "id", PyNone),
         name |-> Get(metric, "name", PyNone),
         description |-> Get(metric, "description", PyNone),
         aggregation_type |-> AggType(FirstAggregation(query)),
         has_filter |-> HasKey(query, "filter"),
         collection_id |-> Get(metric, "collection_id", PyNone)]

\* lines 1555-1578: matching_metrics
SearchMetrics(a, all_cards) ==
    LET matching == SelectSeq(MetricCards(all_cards),
                              LAMBDA m : MatchesTable(a, m))
    IN  [i \in 1..Len(matching) |-> MetricSummary(matching[i])]

-----------------------------------------------------------------------------
(* create_card_with_metrics *)

\* line 794: "not metric_id" for metric_id = metric_ref.get("id")
LacksMetricId(metric_ref) ==
    IF HasKey(metric_ref, "id") THEN metric_ref["id"] = 0 ELSE TRUE

\* lines 792-795: the index i of the first reference the loop raises on,
\* -1 when the loop ends without raising
RECURSIVE FirstInvalidMetric(_, _)
FirstInvalidMetric(metrics, i) ==
    IF i >= Len(metrics) THEN -1
    ELSE IF LacksMetricId(metrics[i + 1]) THEN i
    ELSE FirstInvalidMetric(metrics, i + 1)

\* line 798: aggregations.append(["metric", metric_id])
MetricAggregationList(metrics) ==
    [i \in 1..Len(metrics) |-> <<"metric", metrics[i]["id"]>>]

\* line 804: f'["aggregation",{i}]'
ColumnKey(i) ==
    CASE i = 0 -> "[\"aggregation\",0]"
      [] i = 1 -> "[\"aggregation\",1]"
      [] i = 2 -> "[\"aggregation\",2]"

\* lines 801-805: a column title for every reference with a custom name
ColumnSettings(metrics) ==
    LET named == {i \in 0..(Len(metrics) - 1) :
                    IF HasKey(metrics[i + 1], "name")
                    THEN metrics[i + 1]["name"] # "" ELSE FALSE}
    IN  [k \in {ColumnKey(i) : i \in named} |->
            LET i == CHOOSE j \in named : ColumnKey(j) = k
            IN  [column_title |-> metrics[i + 1]["name"]]]

\* lines 808-820: mbql_query
CardWithMetricsQuery(a) ==
    LET q0 == ("source-table" :> a.source_table_id
               @@ "aggregation" :> MetricAggregationList(a.metrics))
        q1 == IF TruthyList(a.breakouts)
              THEN SetKey(q0, "breakout", a.breakouts[1]) ELSE q0
        q2 == IF TruthyList(a.filters)
              THEN SetKey(q1, "filter", a.filters[1]) ELSE q1
        q3 == IF TruthyList(a.order_by)
              THEN SetKey(q2, "order-by", a.order_by[1]) ELSE q2
    IN  IF TruthyInt(a.limit) THEN SetKey(q3, "limit", a.limit[1]) ELSE q3

\* lines 823-828: viz_settings
VizSettings(a) ==
    LET viz_settings == IF TruthyDict(a.visualization_settings)
                        THEN a.visualization_settings[1] ELSE EmptyDict
        column_settings == ColumnSettings(a.metrics)
        given == Get(viz_settings, "column_settings", EmptyDict)
    IN  IF DOMAIN column_settings # {}
        THEN SetKey(viz_settings, "column_settings",
                    [k \in (DOMAIN given) \cup (DOMAIN column_settings) |->
                        IF k \in DOMAIN column_settings
                        THEN column_settings[k] ELSE given[k]])
        ELSE viz_settings

\* lines 830-844: payload
CardWithMetricsPayload(a, mbql_query) ==
    LET p0 == [name |-> a.name,
               dataset_query |-> [database |-> a.database_id,
                                  type |-> "query",
                                  query |-> mbql_query],
               display |-> a.display,
               visualization_settings |-> VizSettings(a)]
        p1 == IF TruthyStr(a.description)
              THEN SetKey(p0, "description", a.description[1]) ELSE p0
    IN  IF IsGiven(a.collection_id)
        THEN SetKey(p1, "collection_id", a.collection_id[1]) ELSE p1

-----------------------------------------------------------------------------
(* create_card, create_dashboard and update_dashboard *)

\* create_card: the payload of a native SQL card
CreateCardPayload(a) ==
    LET p0 == [name |-> a.name,
               database_id |-> a.database_id,
               dataset_query |-> [database |-> a.database_id,
                                  type |-> "native",
                                  native |-> [query |-> a.query]],
               display |-> "table",
               visualization_settings |->
                  IF TruthyDict(a.visualization_settings)
                  THEN a.visualization_settings[1] ELSE EmptyDict]
        p1 == IF TruthyStr(a.description)
              THEN SetKey(p0, "description", a.description[1]) ELSE p0
    IN  IF IsGiven(a.collection_id)
        THEN SetKey(p1, "collection_id", a.collection_id[1]) ELSE p1

\* create_dashboard: the name, and each optional field the tests let in
CreateDashboardPayload(a) ==
    LET p0 == [name |-> a.name]
        p1 == IF TruthyStr(a.description)
              THEN SetKey(p0, "description", a.description[1]) ELSE p0
        p2 == IF IsGiven(a.collection_id)
              THEN SetKey(p1, "collection_id", a.collection_id[1]) ELSE p1
    IN  IF TruthyList(a.parameters)
        THEN SetKey(p2, "parameters", a.parameters[1]) ELSE p2

\* update_dashboard: every argument that is not None
UpdateDashboardPayload(a) ==
    LET p0 == EmptyDict
        p1 == IF IsGiven(a.name) THEN SetKey(p0, "name", a.name[1]) ELSE p0
        p2 == IF IsGiven(a.description)
              THEN SetKey(p1, "description", a.description[1]) ELSE p1
        p3 == IF IsGiven(a.collection_id)
              THEN SetKey(p2, "collection_id", a.collection_id[1]) ELSE p2
        p4 == IF IsGiven(a.parameters)
              THEN SetKey(p3, "parameters", a.parameters[1]) ELSE p3
    IN  IF IsGiven(a.archived)
        THEN SetKey(p4, "archived", a.archived[1]) ELSE p4

\* "if not payload": no field was given
NoUpdateFields(payload) == DOMAIN payload = {}

-----------------------------------------------------------------------------
(* MetabaseClient *)

\* "if self.session_token", "and self.api_key": None and "" are falsy
TruthyToken(t) == IF t = PyNone THEN FALSE ELSE t # ""

\* variant: a login is made for every request of a session client
NeedsLogin_Always(c) == c.auth_method = "session"

\* _get_headers, lines 78-82: _get_session_token is awaited
NeedsLogin(c) ==
    IF c.auth_method = "api_key" /\ TruthyToken(c.api_key) THEN FALSE
    ELSE c.auth_method = "session" /\ ~TruthyToken(c.session_token)

\* _get_headers, lines 76-86, for the client as the login (if any) left it
Headers(c) ==
    LET headers == "Content-Type" :> "application/json"
    IN  IF c.auth_method = "api_key" /\ TruthyToken(c.api_key)
        THEN SetKey(headers, "X-API-KEY", c.api_key)
        ELSE IF c.auth_method = "session" /\ TruthyToken(c.session_token)
             THEN SetKey(headers, "X-Metabase-Session", c.session_token)
             ELSE headers

\* _get_session_token, lines 104-105: session_data.get("id")
LoggedIn(c, session_data) ==
    [c EXCEPT !.session_token = Get(session_data, "id", PyNone)]

\* the POST /api/session of line 98, sent within request number n
HttpLogin(n, ok) ==
    [kind |-> "login", n |-> n, method |-> "POST", path |-> "/session",
     headers |-> EmptyDict, ok |-> ok]

\* the request of line 116, sent within request number n
HttpApi(n, method, path, headers, ok) ==
    [kind |-> "api", n |-> n, method |-> method, path |-> path,
     headers |-> headers, ok |-> ok]

-----------------------------------------------------------------------------
(* The remote platform behind metabase_client.request *)

\* PUT /dashboard/:id : every field of the payload replaces the stored field
RemotePut(dashboard, payload) ==
    [k \in (DOMAIN dashboard) \cup (DOMAIN payload) |->
        IF k \in DOMAIN payload THEN payload[k] ELSE dashboard[k]]

\* PUT /card/:id : every field of the payload replaces the stored field
RemotePutCard(card, payload) ==
    [k \in (DOMAIN card) \cup (DOMAIN payload) |->
        IF k \in DOMAIN payload THEN payload[k] ELSE card[k]]

\* POST /dataset : the rows of the query, none in the modelled database
RemoteDataset(payload) == [data |-> [rows |-> <<>>]]

\* POST /card : the card is stored under the next free id and returned
RemoteCreateCard(store, payload) ==
    LET id == Cardinality(DOMAIN store) + 1
    IN  SetKey(store, id, SetKey(payload, "id", id))

\* POST /dashboard : the dashboard is stored under the next free id and
\* returned
RemoteCreateDashboard(store, payload) ==
    LET id == Cardinality(DOMAIN store) + 1
    IN  SetKey(store, id, SetKey(payload, "id", id))

\* GET /card : every stored card, in the order of the ids
RemoteListCards(store) == [i \in 1..Cardinality(DOMAIN store) |-> store[i]]

-----------------------------------------------------------------------------
(* Documents the dashboards start from and the tools are called with *)

Tab(id, name) == [id |-> id, name |-> name]

Param(id, name) ==
    [id |-> id, name |-> name, slug |-> id, type |-> "string/="]

Mapping(parameter_id, card_id) ==
    [parameter_id |-> parameter_id, card_id |-> card_id,
     target |-> <<"dimension", <<"field", 7>>>>]

Dashcard(id, card_id, tab_id, row, col, size_x, size_y, mappings) ==
    [id |-> id, card_id |-> card_id, dashboard_tab_id |-> tab_id,
     row |-> row, col |-> col, size_x |-> size_x, size_y |-> size_y,
     visualization_settings |-> [title |-> "t"],
     parameter_mappings |-> mappings]

\* a placement on a dashboard without tabs: no tab reference, no overrides
PlainDashcard(id, card_id, mappings) ==
    [id |-> id, card_id |-> card_id, row |-> 0, col |-> 0,
     size_x |-> 4, size_y |-> 3, parameter_mappings |-> mappings]

DashIds == {1, 2}

Slots == {"a", "b"}

SourceTabs == <<Tab(1, "Overview"), Tab(2, "Details")>>

SourceDashcardLists ==
    { << Dashcard(10, 100, 1, 0, 0, 6, 2, <<Mapping("p1", 100)>>),
         Dashcard(11, 101, 2, 2, 0, 5, 3,
                  <<Mapping("p1", 101), Mapping("p1_copy", 999)>>),
         Dashcard(12, 102, 2, 2, 5, 8, 4, <<Mapping("p1", 102)>>) >>,
      << Dashcard(10, 100, 2, 1, 1, 4, 3, <<>>),
         Dashcard(11, 101, 1, 0, 0, 4, 3, <<Mapping("p2", 101)>>),
         PlainDashcard(12, 102, <<Mapping("p2", 102)>>) >> }

SourceParamLists ==
    { <<>>,
      <<Param("p1", "Region")>>,
      <<Param("p1", "Region"), Param("p1_copy", "Region 2")>>,
      <<Param("p2", "Year"), Param("p1", "Region")>> }

TargetTabLists ==
    { <<>>,
      <<Tab(2, "Main")>>,
      <<Tab(3, "Main"), Tab(-2, "Draft")>>,
      <<Tab(0, "Zero")>> }

TargetDashcardLists ==
    { <<>>,
      <<PlainDashcard(20, 100, <<>>)>>,
      <<PlainDashcard(-1, 100, <<>>),
        Dashcard(21, 103, 2, 0, 0, 4, 3, <<Mapping("p1", 103)>>)>> }

TargetParamLists ==
    { <<>>,
      <<Param("p1", "Area")>>,
      <<Param("p1", "Area"), Param("p1_copy", "Area 2")>>,
      <<Param("p1_copy", "Area 2"), Param("p1", "Area"),
        Param("p1_copy_1", "Area 3")>> }

CardIds == {100, 104}

\* <<size_x, size_y, row, col>> and parameter_mappings: the defaults, and
\* an explicit placement wired to a filter
PlacementArgs == { <<<<4, 3, 0, 0>>, <<>>>>, <<<<2, 5, 1, 6>>, <<Mapping("p1", 100)>>>> }

DashcardIdArgs == {-1, 12, 20}

TabIdArgs == {1, 2}

TabNameArgs == {"", "Copied Details"}

ParameterArgs == { <<>>, <<Param("p1", "Area"), Param("p3", "City")>> }

DashcardArgs == { <<>>, <<PlainDashcard(20, 104, <<Mapping("p3", 104)>>)>> }

\* arguments of execute_mbql_query and create_mbql_card: each one left at
\* None, given empty (zero for the limit), and given with content
AggregationsArgs == { Absent, Given(<<>>), Given(<< <<"count">> >>) }

BreakoutsArgs == { Absent, Given(<<>>), Given(<< <<"field", 12, PyNone>> >>) }

FiltersArgs == { Absent, Given(<<>>), Given(<<"=", <<"field", 5, PyNone>>, "active">>) }

OrderByArgs == { Absent, Given(<<>>), Given(<< <<"desc", <<"aggregation", 0>>>> >>) }

LimitArgs == { Absent, Given(0), Given(10) }

ExpressionsArgs ==
    << Absent, Given(EmptyDict),
       Given([profit |-> <<"-", <<"field", 10, PyNone>>, <<"field", 11, PyNone>>>>]) >>

JoinsArgs == { Absent, Given(<<>>), Given(<< [alias |-> "Orders"] >>) }

FieldsArgs == { Absent, Given(<<>>), Given(<< <<"field", 1, PyNone>> >>) }

DescriptionArgs == { Absent, Given("Orders per month") }

CollectionIdArgs == { Absent, Given(0) }

\* arguments of create_metric and update_metric
MetricAggregations == { <<"count">>, <<"sum", <<"field", 200, PyNone>>>> }

MetricFilterArgs == { Absent, Given(<<"=", <<"field", 105, PyNone>>, TRUE>>) }

\* <<default_time_dimension_field_id, default_time_dimension_unit>>
TimeDimensionArgs == { <<Absent, Absent>>, <<Given(30), Given("month")>> }

MetricIdArgs == {1, 2}

MetricNameArgs == { Absent, Given("MQLs") }

NewAggregationArgs == { Absent, Given(<<"sum", <<"field", 200, PyNone>>>>) }

NewFilterArgs == { Absent, Given(<<>>), Given(<<"=", <<"field", 105, PyNone>>, TRUE>>) }

\* a metric card as the remote stores it
StoredMetric(id, name, aggregations) ==
    [id |-> id, name |-> name, type |-> "metric",
     dataset_query |-> [database |-> 1, type |-> "query",
                        query |-> ("source-table" :> 42
                                   @@ "aggregation" :> aggregations)],
     display |-> "scalar", visualization_settings |-> EmptyDict]

\* metrics stored before any tool call: made by create_metric, made with
\* further options on the named aggregation, made elsewhere with a bare
\* aggregation, and made with no aggregation at all
StoredMetrics ==
    << StoredMetric(1, "Leads", <<NamedAggregation(<<"count">>, "Leads")>>),
       StoredMetric(1, "Leads",
                    << <<"aggregation-options", <<"sum", <<"field", 200, PyNone>>>>,
                         ("name" :> "Old" @@ "display-name" :> "Old"
                          @@ "effective-type" :> "type/Integer")>> >>),
       StoredMetric(1, "Leads", << <<"count">> >>),
       StoredMetric(1, "Leads", << <<"sum", <<"field", 200, PyNone>>>> >>),
       StoredMetric(1, "Leads", <<>>) >>

\* arguments of search_metrics_for_table
TableIdArgs == {42, 7}

DatabaseIdArgs == { Absent, Given(0), Given(1), Given(2) }

\* a card as the remote stores it
StoredCard(id, type, database, query) ==
    [id |-> id, name |-> "Leads", type |-> type,
     dataset_query |-> [database |-> database, type |-> "query", query |-> query],
     display |-> "scalar", visualization_settings |-> EmptyDict]

\* the cards search_metrics_for_table may find stored under an id: a metric
\* made by create_metric, metrics of another database and of another table,
\* a card that is no metric, metrics whose aggregation list is absent, empty
\* or starts with an empty clause, and a metric over a native query
SearchCards(id) ==
    << StoredCard(id, "metric", 1,
                  ("source-table" :> 42
                   @@ "aggregation" :> <<NamedAggregation(<<"count">>, "Leads")>>
                   @@ "filter" :> <<"=", <<"field", 105, PyNone>>, TRUE>>)),
       StoredCard(id, "metric", 2,
                  ("source-table" :> 42
                   @@ "aggregation" :> << <<"sum", <<"field", 200, PyNone>>>> >>)),
       StoredCard(id, "metric", 1,
                  ("source-table" :> 7 @@ "aggregation" :> << <<"count">> >>)),
       StoredCard(id, "question", 1,
                  ("source-table" :> 42 @@ "aggregation" :> << <<"count">> >>)),
       StoredCard(id, "metric", 1, ("source-table" :> 42 @@ "limit" :> 10)),
       StoredCard(id, "metric", 1,
                  ("source-table" :> 42 @@ "aggregation" :> <<>>)),
       StoredCard(id, "metric", 1,
                  ("source-table" :> 42 @@ "aggregation" :> << <<>> >>)),
       [id |-> id, name |-> "Raw", type |-> "metric",
        dataset_query |-> [database |-> 1, type |-> "native"]] >>

\* arguments of create_card_with_metrics: the metric references, with and
\* without an id and a custom name
MetricsArgs ==
    << <<>>,
       << [id |-> 5, name |-> "MQLs"] >>,
       << [id |-> 5], [id |-> 6, name |-> "Total Revenue"] >>,
       << [name |-> "MQLs"] >>,
       << [id |-> 5, name |-> "MQLs"], [name |-> ""], [id |-> 6] >>,
       << [id |-> 0, name |-> "MQLs"] >>,
       << [id |-> 5, name |-> ""], [id |-> 0] >> >>

VisualizationArgs ==
    << Absent, Given(EmptyDict),
       Given([column_settings |->
                ("[\"aggregation\",0]" :> [column_title |-> "Old"]
                 @@ "[\"name\",\"x\"]" :> [column_title |-> "X"])]) >>

\* arguments of create_card, create_dashboard and update_dashboard
DashboardNameArgs == { Absent, Given("Q3") }

DashboardDescriptionArgs == { Absent, Given(""), Given("Quarter 3") }

NewDescriptionArgs == { Absent, Given("") }

DashboardParameterArgs ==
    { Absent, Given(<<>>), Given(<<Param("p1", "Area"), Param("p3", "City")>>) }

ArchivedArgs == { Absent, Given(TRUE), Given(FALSE) }

\* arguments of MetabaseClient.request
RequestMethods == {"GET", "PUT", "POST"}

RequestPaths == {"/card", "/dashboard/1"}

\* answers of the remote to POST /api/session: a session, another session,
\* a 200 without id, and a refusal
LoginReplies ==
    << [status |-> 200, body |-> [id |-> "s1"]],
       [status |-> 200, body |-> [id |-> "s2"]],
       [status |-> 200, body |-> EmptyDict],
       [status |-> 401, body |-> EmptyDict] >>

-----------------------------------------------------------------------------
(* State machine *)

NoArgs == [tool |-> "none"]

NoResult == [status |-> "none"]

NoCards == EmptyDict

\* a Gateway request: dashboard_id is the id in the request path (0 when the
\* path has none), ok whether the response was a success
Call(method, dashboard_id, ok) ==
    [method |-> method, dashboard_id |-> dashboard_id, ok |-> ok]

\* raise ToolError(error_msg): the tool, the kind of failure and its detail
ToolError(tool, kind, detail) ==
    [status |-> "error", tool |-> tool, kind |-> kind, detail |-> detail]

Returned(document) == [status |-> "ok", value |-> document]

\* the dashboard left by two add_card_to_dashboard calls on a dashboard that
\* held one placement
TwiceInserted ==
    LET first == AddCardPayload(<<PlainDashcard(20, 100, <<>>)>>,
                                NewDashcard(100, 4, 3, 0, 0, <<>>))
        second == AddCardPayload(first.dashcards,
                                 NewDashcard(104, 4, 3, 0, 0, <<>>))
    IN  [tabs |-> <<>>, dashcards |-> second.dashcards, parameters |-> <<>>]

SourceDashboards ==
    { [tabs |-> SourceTabs, dashcards |-> sd, parameters |-> sp] :
        sd \in SourceDashcardLists, sp \in SourceParamLists }

TargetDashboards ==
    { [tabs |-> tt, dashcards |-> td, parameters |-> tp] :
        tt \in TargetTabLists, td \in TargetDashcardLists, tp \in TargetParamLists }

\* the dashboards a sequence of tool calls starts from
FirstDashboards ==
    { [tabs |-> SourceTabs,
       dashcards |-> << Dashcard(10, 100, 1, 0, 0, 6, 2, <<Mapping("p1", 100)>>),
                        Dashcard(11, 101, 2, 2, 0, 5, 3, <<Mapping("p1", 101)>>) >>,
       parameters |-> <<Param("p1", "Region")>>] }

SecondDashboards ==
    { [tabs |-> <<>>, dashcards |-> <<>>, parameters |-> <<>>],
      [tabs |-> <<Tab(2, "Main")>>,
       dashcards |-> <<PlainDashcard(20, 100, <<>>)>>,
       parameters |-> <<Param("p1", "Area")>>],
      TwiceInserted }

Idle ==
    /\ pc = [s \in Slots |-> "idle"]
    /\ args = [s \in Slots |-> NoArgs]
    /\ loc = [s \in Slots |-> EmptyDict]
    /\ result = [s \in Slots |-> NoResult]
    /\ calls = [s \in Slots |-> <<>>]
    /\ ninv = 0

\* metabase_client as __init__ leaves it when METABASE_API_KEY is set
ApiKeyClient ==
    [auth_method |-> "api_key", api_key |-> "k", session_token |-> PyNone]

\* metabase_client as __init__ leaves it when only the e-mail and the
\* password are set
SessionClient ==
    [auth_method |-> "session", api_key |-> PyNone, session_token |-> PyNone]

\* the tools are stepped with an API key configured: request() sends each
\* call with the key and changes nothing in the client
Connected ==
    /\ client = ApiKeyClient
    /\ http = <<>>

Init ==
    /\ \E d1 \in FirstDashboards, d2 \in SecondDashboards :
          dash = [d \in DashIds |-> IF d = 1 THEN d1 ELSE d2]
    /\ cards = NoCards
    /\ Idle
    /\ Connected

InitCopy ==
    /\ \E d1 \in SourceDashboards, d2 \in TargetDashboards :
          dash = [d \in DashIds |-> IF d = 1 THEN d1 ELSE d2]
    /\ cards = NoCards
    /\ Idle
    /\ Connected

\* a tool is called: its handler runs up to its first Gateway request
Begin(s, first) ==
    /\ pc[s] = "idle"
    /\ ninv < MaxInvocations
    /\ ninv' = ninv + 1
    /\ pc' = [pc EXCEPT ![s] = first]
    /\ loc' = [loc EXCEPT ![s] = EmptyDict]
    /\ result' = [result EXCEPT ![s] = NoResult]
    /\ calls' = [calls EXCEPT ![s] = <<>>]
    /\ UNCHANGED <<client, http, dash, cards>>

\* the handler ends: it returned or raised ToolError
Finish(s, r) ==
    /\ pc' = [pc EXCEPT ![s] = "idle"]
    /\ result' = [result EXCEPT ![s] = r]

\* the Gateway request a suspended handler is waiting for
PendingCall(s) ==
    CASE pc[s] = "add_get" -> Call("GET", args[s].dashboard_id, TRUE)
      [] pc[s] = "add_put" -> Call("PUT", args[s].dashboard_id, TRUE)
      [] pc[s] = "remove_get" -> Call("GET", args[s].dashboard_id, TRUE)
      [] pc[s] = "remove_put" -> Call("PUT", args[s].dashboard_id, TRUE)
      [] pc[s] = "filter_put" -> Call("PUT", args[s].dashboard_id, TRUE)
      [] pc[s] = "cards_put" -> Call("PUT", args[s].dashboard_id, TRUE)
      [] pc[s] = "copy_get_source" -> Call("GET", args[s].source_dashboard_id, TRUE)
      [] pc[s] = "copy_get_target" -> Call("GET", args[s].target_dashboard_id, TRUE)
      [] pc[s] = "copy_put" -> Call("PUT", args[s].target_dashboard_id, TRUE)
      [] pc[s] = "dataset_post" -> Call("POST", 0, TRUE)
      [] pc[s] = "card_post" -> Call("POST", 0, TRUE)
      [] pc[s] = "metric_post" -> Call("POST", 0, TRUE)
      [] pc[s] = "metric_get" -> Call("GET", args[s].metric_id, TRUE)
      [] pc[s] = "metric_put" -> Call("PUT", args[s].metric_id, TRUE)
      [] pc[s] = "search_get" -> Call("GET", 0, TRUE)
      [] pc[s] = "metrics_card_post" -> Call("POST", 0, TRUE)
      [] pc[s] = "sql_card_post" -> Call("POST", 0, TRUE)
      [] pc[s] = "dashboard_post" -> Call("POST", 0, TRUE)
      [] pc[s] = "dashboard_put" -> Call("PUT", args[s].dashboard_id, TRUE)

\* request() returns response.json(): the handler goes on to its next await
Proceed(s, next, locals) ==
    /\ pc' = [pc EXCEPT ![s] = next]
    /\ loc' = [loc EXCEPT ![s] = locals]
    /\ calls' = [calls EXCEPT ![s] = Append(@, PendingCall(s))]
    /\ UNCHANGED <<client, http, dash, cards, args, result, ninv>>

\* the PUT is applied remotely and the handler returns the response
Write(s, dashboard_id, payload) ==
    /\ dash' = [dash EXCEPT ![dashboard_id] = RemotePut(@, payload)]
    /\ Finish(s, Returned(dash'[dashboard_id]))
    /\ calls' = [calls EXCEPT ![s] = Append(@, PendingCall(s))]
    /\ UNCHANGED <<client, http, cards, args, loc, ninv>>

\* the handler raises after a successful read, before any write
Raise(s, locals, kind, detail) ==
    /\ Finish(s, ToolError(args[s].tool, kind, detail))
    /\ loc' = [loc EXCEPT ![s] = locals]
    /\ calls' = [calls EXCEPT ![s] = Append(@, PendingCall(s))]
    /\ UNCHANGED <<client, http, dash, cards, args, ninv>>

\* variant: a failed request is issued again
GatewayFail_Retry(s) ==
    /\ pc[s] # "idle"
    /\ calls' = [calls EXCEPT ![s] =
                    Append(@, [PendingCall(s) EXCEPT !.ok = FALSE])]
    /\ UNCHANGED <<client, http, dash, cards, pc, args, loc, result, ninv>>

\* request() raises (response.is_success is false): "except Exception" turns
\* it into ToolError, nothing else is called
GatewayFail(s) ==
    /\ pc[s] # "idle"
    /\ Finish(s, ToolError(args[s].tool, "remote", PendingCall(s).method))
    /\ calls' = [calls EXCEPT ![s] =
                    Append(@, [PendingCall(s) EXCEPT !.ok = FALSE])]
    /\ UNCHANGED <<client, http, dash, cards, args, loc, ninv>>

(* add_card_to_dashboard *)

StartAddCard(s) ==
    \E d \in DashIds, c \in CardIds, pa \in PlacementArgs :
        /\ Begin(s, "add_get")
        /\ args' = [args EXCEPT ![s] =
                     [tool |-> "add_card_to_dashboard", dashboard_id |-> d,
                      card_id |-> c, size_x |-> pa[1][1], size_y |-> pa[1][2],
                      row |-> pa[1][3], col |-> pa[1][4],
                      parameter_mappings |-> pa[2]]]

AddCardLocals(a, dashboard) ==
    LET existing_dashcards == DashcardsOf(dashboard)
        new_dashcard == NewDashcard(a.card_id, a.size_x, a.size_y, a.row,
                                    a.col, a.parameter_mappings)
    IN  [existing_dashcards |-> existing_dashcards,
         new_dashcard |-> new_dashcard,
         payload |-> AddCardPayload(existing_dashcards, new_dashcard)]

AddCardGet(s) ==
    /\ pc[s] = "add_get"
    /\ Proceed(s, "add_put", AddCardLocals(args[s], dash[args[s].dashboard_id]))

\* variant: the write is issued again after it was answered
AddCardPut_Repeat(s) ==
    /\ pc[s] = "add_put"
    /\ Len(calls[s]) < 3
    /\ dash' = [dash EXCEPT ![args[s].dashboard_id] = RemotePut(@, loc[s].payload)]
    /\ calls' = [calls EXCEPT ![s] = Append(@, PendingCall(s))]
    /\ UNCHANGED <<client, http, cards, pc, args, loc, result, ninv>>

AddCardPut(s) ==
    /\ pc[s] = "add_put"
    /\ Write(s, args[s].dashboard_id, loc[s].payload)

(* remove_card_from_dashboard *)

StartRemoveCard(s) ==
    \E d \in DashIds, dc \in DashcardIdArgs :
        /\ Begin(s, "remove_get")
        /\ args' = [args EXCEPT ![s] =
                     [tool |-> "remove_card_from_dashboard", dashboard_id |-> d,
                      dashcard_id |-> dc]]

RemoveCardLocals(a, dashboard) ==
    LET existing_dashcards == DashcardsOf(dashboard)
        filtered_dashcards == FilteredDashcards(existing_dashcards, a.dashcard_id)
    IN  [existing_dashcards |-> existing_dashcards,
         filtered_dashcards |-> filtered_dashcards,
         payload |-> RemoveCardPayload(filtered_dashcards)]

RemoveCardGet(s) ==
    /\ pc[s] = "remove_get"
    /\ LET l == RemoveCardLocals(args[s], dash[args[s].dashboard_id])
       IN  /\ ~DashcardNotFound(l.filtered_dashcards, l.existing_dashcards)
           /\ Proceed(s, "remove_put", l)

RemoveCardNotFound(s) ==
    /\ pc[s] = "remove_get"
    /\ LET l == RemoveCardLocals(args[s], dash[args[s].dashboard_id])
       IN  /\ DashcardNotFound(l.filtered_dashcards, l.existing_dashcards)
           /\ Raise(s, [existing_dashcards |-> l.existing_dashcards,
                        filtered_dashcards |-> l.filtered_dashcards],
                    "not_found", args[s].dashcard_id)

RemoveCardPut(s) ==
    /\ pc[s] = "remove_put"
    /\ Write(s, args[s].dashboard_id, loc[s].payload)

(* add_dashboard_filter *)

StartAddFilter(s) ==
    \E d \in DashIds, ps \in ParameterArgs :
        /\ Begin(s, "filter_put")
        /\ args' = [args EXCEPT ![s] =
                     [tool |-> "add_dashboard_filter", dashboard_id |-> d,
                      parameters |-> ps]]

\* variant: the write also carries an empty dashcards list
AddFilterPayload_AlsoCards(parameters) ==
    [parameters |-> parameters, dashcards |-> <<>>]

AddFilterPayload(parameters) == [parameters |-> parameters]

AddFilterPut(s) ==
    /\ pc[s] = "filter_put"
    /\ Write(s, args[s].dashboard_id, AddFilterPayload(args[s].parameters))

(* update_dashboard_cards *)

StartUpdateCards(s) ==
    \E d \in DashIds, dcs \in DashcardArgs :
        /\ Begin(s, "cards_put")
        /\ args' = [args EXCEPT ![s] =
                     [tool |-> "update_dashboard_cards", dashboard_id |-> d,
                      dashcards |-> dcs]]

UpdateCardsPayload(dashcards) == [dashcards |-> dashcards]

UpdateCardsPut(s) ==
    /\ pc[s] = "cards_put"
    /\ Write(s, args[s].dashboard_id, UpdateCardsPayload(args[s].dashcards))

(* copy_dashboard_tab *)

StartCopyTab(s) ==
    \E src \in DashIds, tgt \in DashIds, t \in TabIdArgs,
       n \in TabNameArgs, f \in BOOLEAN :
        /\ Begin(s, "copy_get_source")
        /\ args' = [args EXCEPT ![s] =
                     [tool |-> "copy_dashboard_tab", source_dashboard_id |-> src,
                      target_dashboard_id |-> tgt, tab_id |-> t,
                      new_tab_name |-> n, include_filters |-> f]]

CopyGetSource(s) ==
    /\ pc[s] = "copy_get_source"
    /\ Proceed(s, "copy_get_target",
               [source_dash |-> dash[args[s].source_dashboard_id]])

CopyGetTarget(s) ==
    /\ pc[s] = "copy_get_target"
    /\ LET source_dash == loc[s].source_dash
           target_dash == dash[args[s].target_dashboard_id]
       IN  /\ ~TabMissing(FindTab(Get(source_dash, "tabs", <<>>), args[s].tab_id))
           /\ Proceed(s, "copy_put", CopyLocals(args[s], source_dash, target_dash))

CopyTabNotFound(s) ==
    /\ pc[s] = "copy_get_target"
    /\ LET source_dash == loc[s].source_dash
           target_dash == dash[args[s].target_dashboard_id]
           source_tabs == Get(source_dash, "tabs", <<>>)
       IN  /\ TabMissing(FindTab(source_tabs, args[s].tab_id))
           /\ Raise(s, [source_dash |-> source_dash, target_dash |-> target_dash],
                    "not_found", source_tabs)

CopyPut(s) ==
    /\ pc[s] = "copy_put"
    /\ Write(s, args[s].target_dashboard_id, loc[s].payload)

(* execute_mbql_query *)

StartExecuteMbql(s) ==
    \E ag \in AggregationsArgs, br \in BreakoutsArgs, fl \in FiltersArgs,
       ob \in OrderByArgs, li \in LimitArgs, ex \in DOMAIN ExpressionsArgs,
       jo \in JoinsArgs, fi \in FieldsArgs :
        /\ Begin(s, "dataset_post")
        /\ args' = [args EXCEPT ![s] =
                     [tool |-> "execute_mbql_query", database_id |-> 1,
                      source_table_id |-> 42, aggregations |-> ag,
                      breakouts |-> br, filters |-> fl, order_by |-> ob,
                      limit |-> li, expressions |-> ExpressionsArgs[ex],
                      joins |-> jo, fields |-> fi]]

\* the query and payload are built and POST /dataset returns its result
ExecuteMbqlPost(s) ==
    /\ pc[s] = "dataset_post"
    /\ LET mbql_query == ExecuteMbqlQuery(args[s])
           payload == ExecuteMbqlPayload(args[s], mbql_query)
       IN  /\ loc' = [loc EXCEPT ![s] =
                        [mbql_query |-> mbql_query, payload |-> payload]]
           /\ Finish(s, Returned(RemoteDataset(payload)))
    /\ calls' = [calls EXCEPT ![s] = Append(@, PendingCall(s))]
    /\ UNCHANGED <<client, http, dash, cards, args, ninv>>

(* create_mbql_card *)

StartCreateMbqlCard(s) ==
    \E ag \in AggregationsArgs, br \in BreakoutsArgs, fl \in FiltersArgs,
       ob \in OrderByArgs, li \in LimitArgs, ex \in DOMAIN ExpressionsArgs,
       jo \in JoinsArgs, fi \in FieldsArgs,
       de \in DescriptionArgs, co \in CollectionIdArgs :
        /\ Begin(s, "card_post")
        /\ args' = [args EXCEPT ![s] =
                     [tool |-> "create_mbql_card", name |-> "Orders",
                      database_id |-> 1, source_table_id |-> 42,
                      aggregations |-> ag, breakouts |-> br, filters |-> fl,
                      order_by |-> ob, limit |-> li,
                      expressions |-> ExpressionsArgs[ex], joins |-> jo,
                      fields |-> fi, description |-> de, collection_id |-> co,
                      display |-> "table", visualization_settings |-> Absent]]

\* the query and payload are built and POST /card returns the stored card
CreateMbqlCardPost(s) ==
    /\ pc[s] = "card_post"
    /\ LET mbql_query == CreateMbqlCardQuery(args[s])
           payload == CreateMbqlCardPayload(args[s], mbql_query)
       IN  /\ loc' = [loc EXCEPT ![s] =
                        [mbql_query |-> mbql_query, payload |-> payload]]
           /\ cards' = RemoteCreateCard(cards, payload)
           /\ Finish(s, Returned(cards'[Cardinality(DOMAIN cards')]))
    /\ calls' = [calls EXCEPT ![s] = Append(@, PendingCall(s))]
    /\ UNCHANGED <<client, http, dash, args, ninv>>

(* create_metric *)

StartCreateMetric(s) ==
    \E ag \in MetricAggregations, fl \in MetricFilterArgs,
       td \in TimeDimensionArgs :
        /\ Begin(s, "metric_post")
        /\ args' = [args EXCEPT ![s] =
                     [tool |-> "create_metric", name |-> "Leads",
                      database_id |-> 1, source_table_id |-> 42,
                      aggregation |-> ag, filters |-> fl,
                      description |-> Absent, collection_id |-> Absent,
                      default_time_dimension_field_id |-> td[1],
                      default_time_dimension_unit |-> td[2]]]

\* the query and payload are built and POST /card returns the stored metric
CreateMetricPost(s) ==
    /\ pc[s] = "metric_post"
    /\ LET mbql_query == CreateMetricQuery(args[s])
           payload == CreateMetricPayload(args[s], mbql_query)
       IN  /\ loc' = [loc EXCEPT ![s] =
                        [mbql_query |-> mbql_query, payload |-> payload]]
           /\ cards' = RemoteCreateCard(cards, payload)
           /\ Finish(s, Returned(cards'[Cardinality(DOMAIN cards')]))
    /\ calls' = [calls EXCEPT ![s] = Append(@, PendingCall(s))]
    /\ UNCHANGED <<client, http, dash, args, ninv>>

(* update_metric *)

StartUpdateMetric(s) ==
    \E id \in MetricIdArgs, na \in MetricNameArgs,
       ag \in NewAggregationArgs, fl \in NewFilterArgs :
        /\ Begin(s, "metric_get")
        /\ args' = [args EXCEPT ![s] =
                     [tool |-> "update_metric", metric_id |-> id,
                      name |-> na, description |-> Absent,
                      aggregation |-> ag, filters |-> fl,
                      collection_id |-> Absent, archived |-> Absent]]

\* GET /card/:id answered: the payload is built for the write, and the
\* fetched card the handler holds is rewritten with it
UpdateMetricGet(s) ==
    /\ pc[s] = "metric_get"
    /\ args[s].metric_id \in DOMAIN cards
    /\ LET current == cards[args[s].metric_id]
       IN  /\ UpdateMetricError(args[s], current) = ""
           /\ Proceed(s, "metric_put",
                      [current |-> CurrentAfter(args[s], current),
                       payload |-> UpdateMetricPayload(args[s], current)])

\* GET /card/:id answered, and building the payload raises, before anything
\* was written into the fetched card
UpdateMetricRaise(s) ==
    /\ pc[s] = "metric_get"
    /\ args[s].metric_id \in DOMAIN cards
    /\ LET current == cards[args[s].metric_id]
       IN  /\ UpdateMetricError(args[s], current) # ""
           /\ Raise(s, [current |-> current], "raised",
                    UpdateMetricError(args[s], current))

\* PUT /card/:id is applied remotely and the handler returns the response
UpdateMetricPut(s) ==
    /\ pc[s] = "metric_put"
    /\ cards' = [cards EXCEPT ![args[s].metric_id] =
                    RemotePutCard(@, loc[s].payload)]
    /\ Finish(s, Returned(cards'[args[s].metric_id]))
    /\ calls' = [calls EXCEPT ![s] = Append(@, PendingCall(s))]
    /\ UNCHANGED <<client, http, dash, args, loc, ninv>>

(* search_metrics_for_table *)

StartSearchMetrics(s) ==
    \E t \in TableIdArgs, db \in DatabaseIdArgs :
        /\ Begin(s, "search_get")
        /\ args' = [args EXCEPT ![s] =
                     [tool |-> "search_metrics_for_table",
                      table_id |-> t, database_id |-> db]]

\* GET /card answered: the summaries of the matching metrics are returned
SearchMetricsGet(s) ==
    /\ pc[s] = "search_get"
    /\ LET all_cards == RemoteListCards(cards)
       IN  /\ loc' = [loc EXCEPT ![s] = [all_cards |-> all_cards]]
           /\ Finish(s, Returned(SearchMetrics(args[s], all_cards)))
    /\ calls' = [calls EXCEPT ![s] = Append(@, PendingCall(s))]
    /\ UNCHANGED <<client, http, dash, cards, args, ninv>>

(* create_card_with_metrics *)

\* the handler is called with references the loop accepts and runs up to
\* its POST
StartCreateCardWithMetrics(s) ==
    \E me \in DOMAIN MetricsArgs, br \in BreakoutsArgs, fl \in FiltersArgs,
       ob \in OrderByArgs, li \in LimitArgs, vs \in DOMAIN VisualizationArgs,
       de \in DescriptionArgs, co \in CollectionIdArgs :
        /\ FirstInvalidMetric(MetricsArgs[me], 0) = -1
        /\ Begin(s, "metrics_card_post")
        /\ args' = [args EXCEPT ![s] =
                     [tool |-> "create_card_with_metrics", name |-> "MQLs by Month",
                      database_id |-> 1, source_table_id |-> 42,
                      metrics |-> MetricsArgs[me],
                      breakouts |-> br, filters |-> fl, order_by |-> ob,
                      limit |-> li, description |-> de, collection_id |-> co,
                      display |-> "table",
                      visualization_settings |-> VisualizationArgs[vs]]]

\* the handler is called with a reference the loop raises ValueError on:
\* "except Exception" turns it into ToolError before any request
CreateCardWithMetricsInvalid(s) ==
    \E me \in DOMAIN MetricsArgs, br \in BreakoutsArgs, li \in LimitArgs :
        /\ FirstInvalidMetric(MetricsArgs[me], 0) # -1
        /\ pc[s] = "idle"
        /\ ninv < MaxInvocations
        /\ ninv' = ninv + 1
        /\ args' = [args EXCEPT ![s] =
                     [tool |-> "create_card_with_metrics", name |-> "MQLs by Month",
                      database_id |-> 1, source_table_id |-> 42,
                      metrics |-> MetricsArgs[me],
                      breakouts |-> br, filters |-> Absent, order_by |-> Absent,
                      limit |-> li, description |-> Absent,
                      collection_id |-> Absent, display |-> "table",
                      visualization_settings |-> Absent]]
        /\ loc' = [loc EXCEPT ![s] =
                     [i |-> FirstInvalidMetric(MetricsArgs[me], 0)]]
        /\ result' = [result EXCEPT ![s] =
                        ToolError("create_card_with_metrics", "raised", "ValueError")]
        /\ calls' = [calls EXCEPT ![s] = <<>>]
        /\ UNCHANGED <<client, http, dash, cards, pc>>

\* the query and payload are built and POST /card returns the stored card
CreateCardWithMetricsPost(s) ==
    /\ pc[s] = "metrics_card_post"
    /\ LET mbql_query == CardWithMetricsQuery(args[s])
           payload == CardWithMetricsPayload(args[s], mbql_query)
       IN  /\ loc' = [loc EXCEPT ![s] =
                        [mbql_query |-> mbql_query, payload |-> payload]]
           /\ cards' = RemoteCreateCard(cards, payload)
           /\ Finish(s, Returned(cards'[Cardinality(DOMAIN cards')]))
    /\ calls' = [calls EXCEPT ![s] = Append(@, PendingCall(s))]
    /\ UNCHANGED <<client, http, dash, args, ninv>>

(* create_card *)

StartCreateCard(s) ==
    \E de \in DashboardDescriptionArgs, co \in CollectionIdArgs,
       vs \in DOMAIN VisualizationArgs :
        /\ Begin(s, "sql_card_post")
        /\ args' = [args EXCEPT ![s] =
                     [tool |-> "create_card", name |-> "Orders",
                      database_id |-> 1, query |-> "select 1",
                      description |-> de, collection_id |-> co,
                      visualization_settings |-> VisualizationArgs[vs]]]

\* the payload is built and POST /card returns the stored card
CreateCardPost(s) ==
    /\ pc[s] = "sql_card_post"
    /\ LET payload == CreateCardPayload(args[s])
       IN  /\ loc' = [loc EXCEPT ![s] = [payload |-> payload]]
           /\ cards' = RemoteCreateCard(cards, payload)
           /\ Finish(s, Returned(cards'[Cardinality(DOMAIN cards')]))
    /\ calls' = [calls EXCEPT ![s] = Append(@, PendingCall(s))]
    /\ UNCHANGED <<client, http, dash, args, ninv>>

(* create_dashboard *)

StartCreateDashboard(s) ==
    \E de \in DashboardDescriptionArgs, co \in CollectionIdArgs,
       ps \in DashboardParameterArgs :
        /\ Begin(s, "dashboard_post")
        /\ args' = [args EXCEPT ![s] =
                     [tool |-> "create_dashboard", name |-> "Q3",
                      description |-> de, collection_id |-> co,
                      parameters |-> ps]]

\* the payload is built and POST /dashboard returns the stored dashboard
CreateDashboardPost(s) ==
    /\ pc[s] = "dashboard_post"
    /\ LET payload == CreateDashboardPayload(args[s])
       IN  /\ loc' = [loc EXCEPT ![s] = [payload |-> payload]]
           /\ dash' = RemoteCreateDashboard(dash, payload)
           /\ Finish(s, Returned(dash'[Cardinality(DOMAIN dash')]))
    /\ calls' = [calls EXCEPT ![s] = Append(@, PendingCall(s))]
    /\ UNCHANGED <<client, http, cards, args, ninv>>

(* update_dashboard *)

StartUpdateDashboard(s) ==
    \E d \in DashIds, na \in DashboardNameArgs,
       de \in NewDescriptionArgs, co \in CollectionIdArgs,
       ps \in DashboardParameterArgs, ar \in ArchivedArgs :
        /\ ~NoUpdateFields(UpdateDashboardPayload(
               [name |-> na, description |-> de, collection_id |-> co,
                parameters |-> ps, archived |-> ar]))
        /\ Begin(s, "dashboard_put")
        /\ args' = [args EXCEPT ![s] =
                     [tool |-> "update_dashboard", dashboard_id |-> d,
                      name |-> na, description |-> de, collection_id |-> co,
                      parameters |-> ps, archived |-> ar]]

\* the handler is called with no field to update: it raises ValueError,
\* which "except Exception" turns into ToolError before any request
UpdateDashboardInvalid(s) ==
    \E d \in DashIds :
        /\ NoUpdateFields(UpdateDashboardPayload(
               [name |-> Absent, description |-> Absent,
                collection_id |-> Absent, parameters |-> Absent,
                archived |-> Absent]))
        /\ pc[s] = "idle"
        /\ ninv < MaxInvocations
        /\ ninv' = ninv + 1
        /\ args' = [args EXCEPT ![s] =
                     [tool |-> "update_dashboard", dashboard_id |-> d,
                      name |-> Absent, description |-> Absent,
                      collection_id |-> Absent, parameters |-> Absent,
                      archived |-> Absent]]
        /\ loc' = [loc EXCEPT ![s] = [payload |-> EmptyDict]]
        /\ result' = [result EXCEPT ![s] =
                        ToolError("update_dashboard", "raised", "ValueError")]
        /\ calls' = [calls EXCEPT ![s] = <<>>]
        /\ UNCHANGED <<client, http, dash, cards, pc>>

\* the payload is built and PUT /dashboard/:id returns the stored dashboard
UpdateDashboardPut(s) ==
    /\ pc[s] = "dashboard_put"
    /\ dash' = [dash EXCEPT ![args[s].dashboard_id] =
                   RemotePut(@, UpdateDashboardPayload(args[s]))]
    /\ Finish(s, Returned(dash'[args[s].dashboard_id]))
    /\ loc' = [loc EXCEPT ![s] = [payload |-> UpdateDashboardPayload(args[s])]]
    /\ calls' = [calls EXCEPT ![s] = Append(@, PendingCall(s))]
    /\ UNCHANGED <<client, http, cards, args, ninv>>

(* MetabaseClient.request *)

StartRequest(s) ==
    \E m \in RequestMethods, p \in RequestPaths :
        /\ Begin(s, "request_headers")
        /\ args' = [args EXCEPT ![s] =
                     [tool |-> "request", method |-> m, path |-> p,
                      n |-> ninv + 1]]

\* _get_headers returns without a login
RequestHeaders(s) ==
    /\ pc[s] = "request_headers"
    /\ ~NeedsLogin(client)
    /\ pc' = [pc EXCEPT ![s] = "request_send"]
    /\ loc' = [loc EXCEPT ![s] = [headers |-> Headers(client)]]
    /\ UNCHANGED <<dash, cards, args, result, calls, ninv, client, http>>

\* _get_headers finds no session token and awaits _get_session_token, which
\* posts the login and is suspended until it is answered
RequestLoginSend(s) ==
    /\ pc[s] = "request_headers"
    /\ NeedsLogin(client)
    /\ pc' = [pc EXCEPT ![s] = "request_login"]
    /\ UNCHANGED <<dash, cards, args, loc, result, calls, ninv, client, http>>

\* the remote answers the login with 200: the token of the answer is stored
\* and _get_headers goes on with the client as it is now
RequestLogin(s) ==
    /\ pc[s] = "request_login"
    /\ \E i \in DOMAIN LoginReplies :
          /\ LoginReplies[i].status = 200
          /\ client' = LoggedIn(client, LoginReplies[i].body)
    /\ http' = Append(http, HttpLogin(args[s].n, TRUE))
    /\ pc' = [pc EXCEPT ![s] = "request_send"]
    /\ loc' = [loc EXCEPT ![s] = [headers |-> Headers(client')]]
    /\ UNCHANGED <<dash, cards, args, result, calls, ninv>>

\* the remote refuses the login: _get_session_token raises and request()
\* with it
RequestLoginFail(s) ==
    /\ pc[s] = "request_login"
    /\ \E i \in DOMAIN LoginReplies :
          /\ LoginReplies[i].status # 200
          /\ Finish(s, ToolError("request", "authentication",
                                 LoginReplies[i].status))
    /\ http' = Append(http, HttpLogin(args[s].n, FALSE))
    /\ UNCHANGED <<dash, cards, args, loc, calls, ninv, client>>

\* the request is sent with the headers and answered with a success
RequestSend(s) ==
    /\ pc[s] = "request_send"
    /\ http' = Append(http, HttpApi(args[s].n, args[s].method, args[s].path,
                                    loc[s].headers, TRUE))
    /\ Finish(s, Returned(EmptyDict))
    /\ UNCHANGED <<dash, cards, args, loc, calls, ninv, client>>

\* the request is sent and answered with a failure: request() raises
RequestSendFail(s) ==
    /\ pc[s] = "request_send"
    /\ http' = Append(http, HttpApi(args[s].n, args[s].method, args[s].path,
                                    loc[s].headers, FALSE))
    /\ Finish(s, ToolError("request", "remote", args[s].method))
    /\ UNCHANGED <<dash, cards, args, loc, calls, ninv, client>>

AddCard(s) == StartAddCard(s) \/ AddCardGet(s) \/ AddCardPut(s)

RemoveCard(s) ==
    \/ StartRemoveCard(s) \/ RemoveCardGet(s)
    \/ RemoveCardNotFound(s) \/ RemoveCardPut(s)

AddFilter(s) == StartAddFilter(s) \/ AddFilterPut(s)

UpdateCards(s) == StartUpdateCards(s) \/ UpdateCardsPut(s)

CopyTabSteps(s) ==
    \/ CopyGetSource(s) \/ CopyGetTarget(s)
    \/ CopyTabNotFound(s) \/ CopyPut(s)

\* tool calls arrive one after the other, each awaited before the next
Next ==
    \/ AddCard("a") \/ RemoveCard("a") \/ AddFilter("a") \/ UpdateCards("a")
    \/ StartCopyTab("a") \/ CopyTabSteps("a")
    \/ GatewayFail("a")

Spec == Init /\ [][Next]_vars

\* two tool calls in flight at once, one per slot: add_card_to_dashboard and
\* copy_dashboard_tab handlers interleave at their awaits
Unused(s) == args[s] = NoArgs

NextPair ==
    \E s \in Slots :
        \/ (Unused(s) /\ StartAddCard(s))
        \/ AddCardGet(s) \/ AddCardPut(s)
        \/ (Unused(s) /\ StartCopyTab(s))
        \/ CopyTabSteps(s)
        \/ GatewayFail(s)

SpecPair == Init /\ [][NextPair]_vars

\* one copy_dashboard_tab call, over every pair of source and target documents
NextCopy ==
    \/ (ninv = 0 /\ StartCopyTab("a"))
    \/ CopyTabSteps("a")
    \/ GatewayFail("a")

SpecCopy == InitCopy /\ [][NextCopy]_vars

\* one execute_mbql_query or create_mbql_card call, over every combination
\* of its optional arguments
InitQuery ==
    /\ dash = [d \in DashIds |-> TwiceInserted]
    /\ cards = NoCards
    /\ Idle
    /\ Connected

NextQuery ==
    \/ (ninv = 0 /\ StartExecuteMbql("a"))
    \/ ExecuteMbqlPost("a")
    \/ (ninv = 0 /\ StartCreateMbqlCard("a"))
    \/ CreateMbqlCardPost("a")
    \/ GatewayFail("a")

SpecQuery == InitQuery /\ [][NextQuery]_vars

\* the store after create_metric made metric 2 next to a stored metric 1
StoreAfterCreate ==
    LET a == [tool |-> "create_metric", name |-> "Leads", database_id |-> 1,
              source_table_id |-> 42, aggregation |-> <<"count">>,
              filters |-> Given(<<"=", <<"field", 105, PyNone>>, TRUE>>),
              description |-> Absent, collection_id |-> Absent,
              default_time_dimension_field_id |-> Absent,
              default_time_dimension_unit |-> Absent]
    IN  RemoteCreateCard(1 :> StoredMetrics[1],
                         CreateMetricPayload(a, CreateMetricQuery(a)))

\* create_metric and update_metric calls one after the other, on a store
\* that holds metric 1 and possibly a metric 2 made by create_metric
InitMetric ==
    /\ dash = [d \in DashIds |-> TwiceInserted]
    /\ \/ \E i \in DOMAIN StoredMetrics : cards = 1 :> StoredMetrics[i]
       \/ cards = StoreAfterCreate
    /\ Idle
    /\ Connected

NextMetric ==
    \/ StartCreateMetric("a") \/ CreateMetricPost("a")
    \/ StartUpdateMetric("a") \/ UpdateMetricGet("a")
    \/ UpdateMetricRaise("a") \/ UpdateMetricPut("a")
    \/ GatewayFail("a")

SpecMetric == InitMetric /\ [][NextMetric]_vars

\* search_metrics_for_table over every store of up to MaxStored cards, alone
\* or after a create_metric call; the calls are awaited one after the other,
\* create_metric in slot "a" and the searches in slot "b"
InitSearch ==
    /\ dash = [d \in DashIds |-> TwiceInserted]
    /\ \E n \in 0..MaxStored :
          \E f \in [1..n -> DOMAIN SearchCards(0)] :
              cards = [i \in 1..n |-> SearchCards(i)[f[i]]]
    /\ Idle
    /\ Connected

NextSearch ==
    \/ (ninv = 0 /\ StartCreateMetric("a")) \/ CreateMetricPost("a")
    \/ (pc["a"] = "idle" /\ StartSearchMetrics("b")) \/ SearchMetricsGet("b")
    \/ GatewayFail("a") \/ GatewayFail("b")

SpecSearch == InitSearch /\ [][NextSearch]_vars

\* one create_card_with_metrics call, over every combination of its
\* arguments
NextCardWithMetrics ==
    \/ (ninv = 0 /\ StartCreateCardWithMetrics("a"))
    \/ (ninv = 0 /\ CreateCardWithMetricsInvalid("a"))
    \/ CreateCardWithMetricsPost("a")
    \/ GatewayFail("a")

SpecCardWithMetrics == InitQuery /\ [][NextCardWithMetrics]_vars

\* two add_card_to_dashboard or copy_dashboard_tab calls that the caller
\* serializes: the second, in slot "b", starts after the first, in slot "a",
\* has ended
NextSerial ==
    \/ (ninv = 0 /\ StartAddCard("a")) \/ (ninv = 0 /\ StartCopyTab("a"))
    \/ (Unused("b") /\ pc["a"] = "idle" /\ ninv = 1 /\ StartAddCard("b"))
    \/ (Unused("b") /\ pc["a"] = "idle" /\ ninv = 1 /\ StartCopyTab("b"))
    \/ \E s \in Slots :
          \/ AddCardGet(s) \/ AddCardPut(s)
          \/ CopyTabSteps(s)
          \/ GatewayFail(s)

SpecSerial == Init /\ [][NextSerial]_vars

\* MetabaseClient.request called again and again, each call awaited before
\* the next, by a client configured with an API key or with e-mail and
\* password
InitGateway ==
    /\ dash = [d \in DashIds |-> TwiceInserted]
    /\ cards = NoCards
    /\ Idle
    /\ client \in {ApiKeyClient, SessionClient}
    /\ http = <<>>

NextGateway ==
    \/ StartRequest("a") \/ RequestHeaders("a") \/ RequestLoginSend("a")
    \/ RequestLogin("a") \/ RequestLoginFail("a")
    \/ RequestSend("a") \/ RequestSendFail("a")

SpecGateway == InitGateway /\ [][NextGateway]_vars

\* two requests in flight at once on the one metabase_client: each handler
\* is suspended at the login and at the request it awaits
NextGatewayPair ==
    \E s \in Slots :
        \/ StartRequest(s) \/ RequestHeaders(s) \/ RequestLoginSend(s)
        \/ RequestLogin(s) \/ RequestLoginFail(s)
        \/ RequestSend(s) \/ RequestSendFail(s)

SpecGatewayPair == InitGateway /\ [][NextGatewayPair]_vars

\* the card and dashboard management tools, called one after the other
NextManage ==
    \/ StartCreateCard("a") \/ CreateCardPost("a")
    \/ StartCreateDashboard("a") \/ CreateDashboardPost("a")
    \/ StartUpdateDashboard("a") \/ UpdateDashboardInvalid("a")
    \/ UpdateDashboardPut("a")
    \/ GatewayFail("a")

SpecManage == Init /\ [][NextManage]_vars

-----------------------------------------------------------------------------
(* Properties *)

Ids(xs) == [i \in 1..Len(xs) |-> Get(xs[i], "id", PyNone)]

Distinct(xs) == \A i, j \in 1..Len(xs) : i # j => xs[i] # xs[j]

IsPrefix(xs, ys) ==
    /\ Len(xs) <= Len(ys)
    /\ \A i \in 1..Len(xs) : ys[i] = xs[i]

Suffix(ys, n) == [i \in 1..(Len(ys) - n) |-> ys[n + i]]

Tool(s) == args[s].tool

\* the handler has built its write payload from what it fetched
Computed(s, tool) == Tool(s) = tool /\ "payload" \in DOMAIN loc[s]

\* the handler has issued its write and returned the response
Written(s, tool) ==
    Computed(s, tool) /\ pc[s] = "idle" /\ result[s].status = "ok"

PutCalls(s) == SelectSeq(calls[s], LAMBDA c : c.method = "PUT")

ParamsWritten(s) == "parameters" \in DOMAIN loc[s].payload

\* C1: after copy_dashboard_tab with include_filters, the parameter list
\* written to the target has pairwise distinct ids whenever the source's and
\* the target's own parameter lists each have pairwise distinct ids.
C1_WrittenParamIdsDistinct ==
    \A s \in Slots :
        ( /\ Written(s, "copy_dashboard_tab")
          /\ args[s].include_filters
          /\ ParamsWritten(s)
          /\ Distinct(Ids(loc[s].source_dash.parameters))
          /\ Distinct(Ids(loc[s].target_dash.parameters)) )
        => Distinct(Ids(loc[s].payload.parameters))

\* C2: after a copy_dashboard_tab write, every parameter mapping of every
\* new dashcard names a parameter id that is in the target dashboard's
\* parameter list as it stands after the write.
C2_MappingsResolve ==
    \A s \in Slots :
        Written(s, "copy_dashboard_tab")
        => \A dc \in Range(loc[s].new_dashcards) :
             \A m \in Range(dc.parameter_mappings) :
                m.parameter_id \in
                    Range(Ids(dash[args[s].target_dashboard_id].parameters))

\* C3: the single write of copy_dashboard_tab is additive: tabs, dashcards
\* and (when written) parameters each start with the fetched target list,
\* element for element, followed only by the new tab, the new dashcards and
\* the copied parameters; after the write the target holds exactly that.
C3_CopyAdditive ==
    \A s \in Slots :
        Computed(s, "copy_dashboard_tab")
        => LET t == loc[s].target_dash
               w == loc[s].payload
           IN  /\ DOMAIN w \subseteq {"tabs", "dashcards", "parameters"}
               /\ IsPrefix(t.tabs, w.tabs)
               /\ Suffix(w.tabs, Len(t.tabs)) = <<loc[s].new_tab>>
               /\ IsPrefix(t.dashcards, w.dashcards)
               /\ Suffix(w.dashcards, Len(t.dashcards)) = loc[s].new_dashcards
               /\ ParamsWritten(s)
                    => /\ IsPrefix(t.parameters, w.parameters)
                       /\ Suffix(w.parameters, Len(t.parameters))
                            = loc[s].params_to_add
               /\ Len(PutCalls(s)) <= 1
               /\ Written(s, "copy_dashboard_tab")
                    => LET after == dash[args[s].target_dashboard_id]
                       IN  /\ IsPrefix(t.tabs, after.tabs)
                           /\ IsPrefix(t.dashcards, after.dashcards)
                           /\ IsPrefix(t.parameters, after.parameters)

\* a copy wrote tabs, dashcards and parameters onto a target that held some
\* of each
C3_Witness ==
    \E s \in Slots :
        /\ Written(s, "copy_dashboard_tab")
        /\ ParamsWritten(s)
        /\ Len(loc[s].target_dash.tabs) > 0
        /\ Len(loc[s].target_dash.dashcards) > 0
        /\ Len(loc[s].target_dash.parameters) > 0
        /\ Len(loc[s].new_dashcards) > 1

\* C4: the tab id allocated by copy_dashboard_tab is strictly negative,
\* strictly less than every tab id on the fetched target, and -1 when the
\* target has no tabs.
C4_NewTabIdBelowAll ==
    \A s \in Slots :
        Computed(s, "copy_dashboard_tab")
        => LET tabs == loc[s].target_dash.tabs
               new_id == loc[s].new_tab.id
           IN  /\ new_id < 0
               /\ \A i \in 1..Len(tabs) : new_id < tabs[i].id
               /\ Len(tabs) = 0 => new_id = -1
               /\ loc[s].payload.tabs[Len(tabs) + 1].id = new_id

\* a tab was allocated below a negative tab id already on the target
C4_Witness ==
    \E s \in Slots :
        /\ Written(s, "copy_dashboard_tab")
        /\ \E i \in 1..Len(loc[s].target_dash.tabs) :
              loc[s].target_dash.tabs[i].id < 0
        /\ loc[s].new_tab.id < -1

\* C5: copy_dashboard_tab gives the copied dashcards strictly decreasing,
\* strictly negative ids, one per copied dashcard in source order, starting
\* at min(smallest target dashcard id - 1, -1); each differs from every
\* dashcard id on the target and from the other new ids.
C5_NewDashcardIds ==
    \A s \in Slots :
        Computed(s, "copy_dashboard_tab")
        => LET old == Ids(loc[s].target_dash.dashcards)
               src == TabDashcards(loc[s].source_dash.dashcards, args[s].tab_id)
               new == loc[s].new_dashcards
           IN  /\ Len(new) = Len(src)
               /\ \A i \in 1..Len(new) :
                    /\ new[i].id < 0
                    /\ new[i].card_id = src[i].card_id
                    /\ \A j \in 1..Len(old) : new[i].id # old[j]
                    /\ i > 1 => new[i].id = new[i - 1].id - 1
               /\ Len(new) > 0 =>
                    /\ \A j \in 1..Len(old) : new[1].id < old[j]
                    /\ new[1].id = -1 \/ \E j \in 1..Len(old) : new[1].id = old[j] - 1
               /\ Distinct(Ids(new))

\* two dashcards were copied onto a target that already held a negative id
C5_Witness ==
    \E s \in Slots :
        /\ Written(s, "copy_dashboard_tab")
        /\ Len(loc[s].new_dashcards) = 2
        /\ \E j \in 1..Len(loc[s].target_dash.dashcards) :
              loc[s].target_dash.dashcards[j].id < 0

\* C6: in every write of add_card_to_dashboard the new dashcard's id is
\* strictly negative and differs from every id in the fetched dashcard list
\* (fetched lists with pairwise distinct ids).
C6_InsertIdFresh ==
    \A s \in Slots :
        ( /\ Written(s, "add_card_to_dashboard")
          /\ Distinct(Ids(loc[s].existing_dashcards)) )
        => /\ loc[s].new_dashcard.id < 0
           /\ \A i \in 1..Len(loc[s].existing_dashcards) :
                loc[s].existing_dashcards[i].id # loc[s].new_dashcard.id

\* C7: add_card_to_dashboard writes the fetched dashcard list unchanged and
\* in order, followed by exactly one new dashcard with id -1 carrying the
\* given card id, size, position and parameter mappings; a card already
\* placed gets a second placement.
C7_InsertAppendsOne ==
    \A s \in Slots :
        Computed(s, "add_card_to_dashboard")
        => LET old == loc[s].existing_dashcards
               w == loc[s].payload
               new == w.dashcards[Len(w.dashcards)]
               a == args[s]
           IN  /\ DOMAIN w = {"dashcards"}
               /\ Len(w.dashcards) = Len(old) + 1
               /\ \A i \in 1..Len(old) : w.dashcards[i] = old[i]
               /\ new.id = -1
               /\ new.card_id = a.card_id
               /\ new.size_x = a.size_x /\ new.size_y = a.size_y
               /\ new.row = a.row /\ new.col = a.col
               /\ new.parameter_mappings = a.parameter_mappings
               /\ Written(s, "add_card_to_dashboard")
                    => dash[a.dashboard_id].dashcards = w.dashcards

\* a card already placed on the dashboard was inserted again and the
\* dashboard now holds both placements
C7_Witness ==
    \E s \in Slots :
        /\ Written(s, "add_card_to_dashboard")
        /\ Len(loc[s].existing_dashcards) > 0
        /\ \E i \in 1..Len(loc[s].existing_dashcards) :
              loc[s].existing_dashcards[i].card_id = args[s].card_id
        /\ Len(SelectSeq(dash[args[s].dashboard_id].dashcards,
                         LAMBDA dc : dc.card_id = args[s].card_id)) >= 2
        /\ Len(args[s].parameter_mappings) > 0

\* the fetched dashcard list of a remove_card_from_dashboard call
Fetched(s) == loc[s].existing_dashcards

HasRead(s, tool) == Tool(s) = tool /\ "existing_dashcards" \in DOMAIN loc[s]

IdPresent(s) ==
    \E i \in 1..Len(Fetched(s)) : Fetched(s)[i].id = args[s].dashcard_id

\* C8: remove_card_from_dashboard given an id that no fetched dashcard
\* carries reports not-found, issues no write, and leaves the dashboard's
\* dashcard list as it was.
C8_RemoveAbsentFails ==
    \A s \in Slots :
        (HasRead(s, "remove_card_from_dashboard") /\ ~IdPresent(s))
        => /\ pc[s] = "idle"
           /\ result[s] = ToolError("remove_card_from_dashboard", "not_found",
                                    args[s].dashcard_id)
           /\ Len(PutCalls(s)) = 0
           /\ dash[args[s].dashboard_id].dashcards = Fetched(s)

\* a removal of an absent id from a dashboard that holds dashcards failed
C8_Witness ==
    \E s \in Slots :
        /\ HasRead(s, "remove_card_from_dashboard")
        /\ ~IdPresent(s)
        /\ Len(Fetched(s)) > 0
        /\ result[s].status = "error"

\* C9: remove_card_from_dashboard given an id present on the dashboard
\* writes exactly the fetched list without the entries carrying that id,
\* the others unchanged and in their original order.
C9_RemovePresentFilters ==
    \A s \in Slots :
        (HasRead(s, "remove_card_from_dashboard") /\ IdPresent(s))
        => LET old == Fetched(s)
               keep == {i \in 1..Len(old) : old[i].id # args[s].dashcard_id}
               rank(i) == Cardinality({j \in keep : j <= i})
           IN  /\ Computed(s, "remove_card_from_dashboard")
               /\ DOMAIN loc[s].payload = {"dashcards"}
               /\ Len(loc[s].payload.dashcards) = Cardinality(keep)
               /\ \A i \in keep : loc[s].payload.dashcards[rank(i)] = old[i]
               /\ pc[s] = "idle" =>
                    \/ /\ result[s].status = "ok"
                       /\ dash[args[s].dashboard_id].dashcards
                            = loc[s].payload.dashcards
                    \/ /\ result[s].status = "error"
                       /\ result[s].kind = "remote"

\* a removal dropped two dashcards carrying the id and kept another one
C9_Witness ==
    \E s \in Slots :
        /\ Written(s, "remove_card_from_dashboard")
        /\ Len(Fetched(s)) >= Len(loc[s].payload.dashcards) + 2
        /\ Len(loc[s].payload.dashcards) > 0

\* both dashboards of a copy_dashboard_tab call have been fetched
BothFetched(s) ==
    Tool(s) = "copy_dashboard_tab" /\ "target_dash" \in DOMAIN loc[s]

TabPresent(s) ==
    \E i \in 1..Len(loc[s].source_dash.tabs) :
        loc[s].source_dash.tabs[i].id = args[s].tab_id

\* C10: copy_dashboard_tab whose tab id is not among the source dashboard's
\* tabs reports not-found with the source's tabs, issues no write, and the
\* target stays as fetched.
C10_CopyMissingTabFails ==
    \A s \in Slots :
        (BothFetched(s) /\ ~TabPresent(s))
        => /\ pc[s] = "idle"
           /\ result[s] = ToolError("copy_dashboard_tab", "not_found",
                                    loc[s].source_dash.tabs)
           /\ Len(PutCalls(s)) = 0
           /\ dash[args[s].target_dashboard_id] = loc[s].target_dash

\* a copy named a tab the source lacks although the source has other tabs
C10_Witness ==
    \E s \in Slots :
        /\ BothFetched(s)
        /\ ~TabPresent(s)
        /\ Len(loc[s].source_dash.tabs) > 0
        /\ result[s].status = "error"

\* C11: the write of copy_dashboard_tab carries the parameters field exactly
\* when at least one parameter was copied; with include_filters false
\* nothing is copied, the write has no parameters field, and after the write
\* the target's parameter list is the fetched one.
C11_ParamsOnlyWhenCopied ==
    \A s \in Slots :
        Computed(s, "copy_dashboard_tab")
        => /\ ParamsWritten(s) <=> Len(loc[s].params_to_add) > 0
           /\ ~args[s].include_filters
                => /\ loc[s].params_to_add = <<>>
                   /\ ~ParamsWritten(s)
                   /\ Written(s, "copy_dashboard_tab")
                        => dash[args[s].target_dashboard_id].parameters
                             = loc[s].target_dash.parameters

\* a copy without filters wrote dashcards mapped to a parameter of the
\* source onto a target that held parameters of its own
C11_Witness ==
    \E s \in Slots :
        /\ Written(s, "copy_dashboard_tab")
        /\ ~args[s].include_filters
        /\ Len(loc[s].target_dash.parameters) > 0
        /\ \E dc \in Range(loc[s].new_dashcards) :
              \E m \in Range(dc.parameter_mappings) :
                 m.parameter_id \in Range(Ids(loc[s].source_dash.parameters))

\* the handler of the given tool has just returned the response to its write
Returns(s, tool) ==
    /\ pc[s] # "idle"
    /\ Tool(s) = tool
    /\ pc'[s] = "idle"
    /\ result'[s].status = "ok"

\* C13: add_dashboard_filter and update_dashboard_cards each issue one PUT
\* and no GET; the PUT replaces the dashboard's parameters (respectively
\* dashcards) field by exactly the given list, whatever the field held, and
\* leaves every other field and every other dashboard as it was.
C13_ReplaceWholeField ==
    [][\A s \in Slots :
         /\ Returns(s, "add_dashboard_filter")
              => /\ calls'[s] = <<Call("PUT", args[s].dashboard_id, TRUE)>>
                 /\ dash' = [dash EXCEPT ![args[s].dashboard_id] =
                               [@ EXCEPT !.parameters = args[s].parameters]]
                 /\ result'[s].value = dash'[args[s].dashboard_id]
         /\ Returns(s, "update_dashboard_cards")
              => /\ calls'[s] = <<Call("PUT", args[s].dashboard_id, TRUE)>>
                 /\ dash' = [dash EXCEPT ![args[s].dashboard_id] =
                               [@ EXCEPT !.dashcards = args[s].dashcards]]
                 /\ result'[s].value = dash'[args[s].dashboard_id]
      ]_vars

\* the parameters of dashboard 1 were replaced by two others and then its
\* two dashcards by one other, the replaced parameters still in place
C13_Witness ==
    \E s \in Slots :
        /\ Tool(s) = "update_dashboard_cards"
        /\ pc[s] = "idle"
        /\ result[s].status = "ok"
        /\ args[s].dashboard_id = 1
        /\ calls[s] = <<Call("PUT", 1, TRUE)>>
        /\ Len(args[s].dashcards) = 1
        /\ dash[1].dashcards = args[s].dashcards
        /\ dash[1].parameters = <<Param("p1", "Area"), Param("p3", "City")>>
        /\ dash[1].tabs = SourceTabs

\* the Gateway calls a handler makes when none fails, in order
PlannedCalls(a) ==
    CASE a.tool = "add_card_to_dashboard" ->
            <<Call("GET", a.dashboard_id, TRUE), Call("PUT", a.dashboard_id, TRUE)>>
      [] a.tool = "remove_card_from_dashboard" ->
            <<Call("GET", a.dashboard_id, TRUE), Call("PUT", a.dashboard_id, TRUE)>>
      [] a.tool = "add_dashboard_filter" -> <<Call("PUT", a.dashboard_id, TRUE)>>
      [] a.tool = "update_dashboard_cards" -> <<Call("PUT", a.dashboard_id, TRUE)>>
      [] a.tool = "copy_dashboard_tab" ->
            <<Call("GET", a.source_dashboard_id, TRUE),
              Call("GET", a.target_dashboard_id, TRUE),
              Call("PUT", a.target_dashboard_id, TRUE)>>
      [] OTHER -> <<>>

FailedLast(cs) == IF Len(cs) = 0 THEN FALSE ELSE ~cs[Len(cs)].ok

\* C14: within one invocation the Gateway calls made are an initial part of
\* the handler's calls, each made once and only the last possibly failed;
\* a failed call ends the invocation with a reported remote failure, no call
\* follows it, and every step of the invocation other than a successful
\* return leaves all dashboards as they were.
C14_NoRetryFailureKeepsDashboard ==
    [][\A s \in Slots :
         LET cs == calls'[s]
             plan == PlannedCalls(args'[s])
         IN  /\ Len(cs) <= Len(plan)
             /\ \A i \in 1..Len(cs) :
                   /\ cs[i].method = plan[i].method
                   /\ cs[i].dashboard_id = plan[i].dashboard_id
                   /\ i < Len(cs) => cs[i].ok
             /\ FailedLast(cs)
                  => /\ pc'[s] = "idle"
                     /\ result'[s].status = "error"
                     /\ result'[s].kind = "remote"
                     /\ result'[s].tool = args'[s].tool
             /\ FailedLast(calls[s]) => cs \in {calls[s], <<>>}
             /\ (calls'[s] # calls[s] /\ result'[s].status # "ok")
                  => dash' = dash
      ]_vars

\* a copy fetched both dashboards, its write was rejected, and the target is
\* as it was fetched
C14_Witness ==
    \E s \in Slots :
        /\ Computed(s, "copy_dashboard_tab")
        /\ calls[s] = <<Call("GET", args[s].source_dashboard_id, TRUE),
                        Call("GET", args[s].target_dashboard_id, TRUE),
                        Call("PUT", args[s].target_dashboard_id, FALSE)>>
        /\ result[s].status = "error"
        /\ Len(loc[s].new_dashcards) > 0
        /\ dash[args[s].target_dashboard_id] = loc[s].target_dash

\* invocation t is s called again with the same arguments, and t fetched
\* the target as the write of s left it
Repeats(s, t) ==
    /\ s # t
    /\ Written(s, "copy_dashboard_tab")
    /\ Written(t, "copy_dashboard_tab")
    /\ args[s] = args[t]
    /\ loc[t].target_dash = result[s].value

\* C12: when copy_dashboard_tab is called twice with the same arguments and
\* the second call reads the target left by the first, the target ends with
\* the tabs it had followed by two copied tabs of the same name, whose ids
\* are distinct and both strictly negative.
C12_CopyTwiceTwoTabs ==
    \A s, t \in Slots :
        Repeats(s, t)
        => LET tabs == dash[args[t].target_dashboard_id].tabs
               n == Len(loc[s].target_dash.tabs)
           IN  /\ Len(tabs) = n + 2
               /\ \A i \in 1..n : tabs[i] = loc[s].target_dash.tabs[i]
               /\ tabs[n + 1] = loc[s].new_tab
               /\ tabs[n + 2] = loc[t].new_tab
               /\ tabs[n + 1].name = tabs[n + 2].name
               /\ tabs[n + 1].id # tabs[n + 2].id
               /\ tabs[n + 1].id < 0
               /\ tabs[n + 2].id < 0

\* a tab with dashcards was copied twice onto another dashboard that had a
\* tab of its own
C12_Witness ==
    \E s, t \in Slots :
        /\ Repeats(s, t)
        /\ args[s].source_dashboard_id # args[s].target_dashboard_id
        /\ Len(loc[s].target_dash.tabs) > 0
        /\ Len(loc[s].new_dashcards) > 0
        /\ Len(loc[t].new_dashcards) > 0

\* the dashboard an add_card_to_dashboard or copy_dashboard_tab call writes
Target(s) ==
    IF Tool(s) = "copy_dashboard_tab" THEN args[s].target_dashboard_id
    ELSE args[s].dashboard_id

\* what the handler fetched from the dashboard it writes
FetchedBy(s) ==
    IF Tool(s) = "copy_dashboard_tab" THEN loc[s].target_dash.dashcards
    ELSE loc[s].existing_dashcards

\* the dashcards the handler added to what it fetched
AddedBy(s) == Suffix(loc[s].payload.dashcards, Len(FetchedBy(s)))

\* both calls wrote the same dashboard and returned, and each had fetched
\* it before the other wrote: they fetched the same document
Raced(s, t) ==
    /\ s # t
    /\ \E tool \in {"add_card_to_dashboard", "copy_dashboard_tab"} :
          Written(s, tool) /\ Written(t, tool)
    /\ Target(s) = Target(t)
    /\ IF Tool(s) = "copy_dashboard_tab"
       THEN loc[s].target_dash = loc[t].target_dash
       ELSE loc[s].existing_dashcards = loc[t].existing_dashcards

\* C15: when two add_card_to_dashboard calls, or two copy_dashboard_tab
\* calls, on the same dashboard both fetch it before either writes, both
\* report success with one write each, and the dashboard ends as one of the
\* two calls wrote it: what was fetched plus the additions of that call
\* only (one dashcard, respectively one tab), the other's being lost.
C15_LostUpdate ==
    \A s, t \in Slots :
        Raced(s, t)
        => LET final == dash[Target(s)]
           IN  /\ result[s].status = "ok" /\ result[t].status = "ok"
               /\ Len(PutCalls(s)) = 1 /\ Len(PutCalls(t)) = 1
               /\ \E w \in {s, t} :
                     /\ final = result[w].value
                     /\ final.dashcards = FetchedBy(w) \o AddedBy(w)
               /\ Tool(s) = "add_card_to_dashboard"
                    => Len(final.dashcards) = Len(FetchedBy(s)) + 1
               /\ Tool(s) = "copy_dashboard_tab"
                    => Len(final.tabs) = Len(loc[s].target_dash.tabs) + 1

\* two different cards were inserted concurrently into a dashboard, both
\* calls succeeded, and the dashboard holds only one of the two cards
C15_Witness ==
    \E s, t \in Slots :
        /\ Raced(s, t)
        /\ Tool(s) = "add_card_to_dashboard"
        /\ args[s].card_id # args[t].card_id
        /\ \A i \in 1..Len(FetchedBy(s)) :
              FetchedBy(s)[i].card_id \notin {args[s].card_id, args[t].card_id}
        /\ \E c \in {args[s].card_id, args[t].card_id} :
              \A i \in 1..Len(dash[Target(s)].dashcards) :
                 dash[Target(s)].dashcards[i].card_id # c

\* the handler of an MBQL tool has built its query
Built(s) ==
    /\ Tool(s) \in {"execute_mbql_query", "create_mbql_card"}
    /\ "mbql_query" \in DOMAIN loc[s]

\* the query keys of the optional arguments that were supplied (not None)
SuppliedKeys(a) ==
    {k \in {"aggregation", "breakout", "filter", "order-by", "limit",
            "expressions", "joins", "fields"} :
        CASE k = "aggregation" -> IsGiven(a.aggregations)
          [] k = "breakout" -> IsGiven(a.breakouts)
          [] k = "filter" -> IsGiven(a.filters)
          [] k = "order-by" -> IsGiven(a.order_by)
          [] k = "limit" -> IsGiven(a.limit)
          [] k = "expressions" -> IsGiven(a.expressions)
          [] k = "joins" -> IsGiven(a.joins)
          [] k = "fields" -> IsGiven(a.fields)}

\* C16: the query built by execute_mbql_query and create_mbql_card has the
\* source table and exactly the keys of the optional arguments that were
\* supplied: no key for an argument left out, a key for every argument
\* given.
C16_QueryKeysAsSupplied ==
    \A s \in Slots :
        Built(s)
        => /\ loc[s].mbql_query["source-table"] = args[s].source_table_id
           /\ DOMAIN loc[s].mbql_query
                = {"source-table"} \cup SuppliedKeys(args[s])

\* C17: for the same arguments execute_mbql_query and create_mbql_card
\* build the same query, key for key and value for value, and that query is
\* the one each of them posts.
C17_SameQueryBothPaths ==
    \A s \in Slots :
        /\ (Built(s) /\ Tool(s) = "execute_mbql_query")
             => /\ loc[s].mbql_query = CreateMbqlCardQuery(args[s])
                /\ loc[s].payload.query = loc[s].mbql_query
        /\ (Built(s) /\ Tool(s) = "create_mbql_card")
             => /\ loc[s].mbql_query = ExecuteMbqlQuery(args[s])
                /\ loc[s].payload.dataset_query.query = loc[s].mbql_query

\* a card was created from a query with every optional argument given and
\* all nine keys present
C17_Witness ==
    \E s \in Slots :
        /\ Built(s)
        /\ Tool(s) = "create_mbql_card"
        /\ result[s].status = "ok"
        /\ DOMAIN loc[s].mbql_query
             = {"source-table", "aggregation", "breakout", "filter",
                "order-by", "limit", "expressions", "joins", "fields"}
        /\ loc[s].mbql_query["limit"] = 10
        /\ Cardinality(DOMAIN cards) = 1

\* the aggregation list of a card document or of a card payload
AggregationsOf(doc) == doc.dataset_query.query["aggregation"]

NameOptions(name) == ("name" :> name @@ "display-name" :> name)

IsWrapped(clause) ==
    IF Len(clause) = 0 THEN FALSE ELSE clause[1] = "aggregation-options"

\* the aggregation clause a named clause carries
Unwrap(clause) == clause[2]

\* C18: create_metric posts, and the remote stores, an aggregation list of
\* exactly one clause <<"aggregation-options", aggregation, options>> whose
\* aggregation is the caller's clause unchanged and whose options are name
\* and display-name, both the metric name; unwrapping it gives the caller's
\* clause back.
C18_CreateWrapsOnce ==
    \A s \in Slots :
        Computed(s, "create_metric")
        => LET aggs == AggregationsOf(loc[s].payload)
           IN  /\ Len(aggs) = 1
               /\ Len(aggs[1]) = 3
               /\ aggs[1][1] = "aggregation-options"
               /\ aggs[1][2] = args[s].aggregation
               /\ aggs[1][3] = NameOptions(args[s].name)
               /\ Unwrap(aggs[1]) = args[s].aggregation
               /\ loc[s].payload.name = args[s].name
               /\ result[s].status = "ok"
                    => /\ result[s].value.id \in DOMAIN cards
                       /\ AggregationsOf(result[s].value) = aggs

\* a metric summing a field under a filter was created and stored
C18_Witness ==
    \E s \in Slots :
        /\ Computed(s, "create_metric")
        /\ result[s].status = "ok"
        /\ Len(args[s].aggregation) = 2
        /\ IsGiven(args[s].filters)
        /\ cards[result[s].value.id] = result[s].value
        /\ Unwrap(AggregationsOf(cards[result[s].value.id])[1])
             = <<"sum", <<"field", 200, PyNone>>>>

\* update_metric was called with a new name and nothing else, on a metric
\* whose stored aggregation list starts with a clause
\* the step is the write of an update_metric call that was given only a
\* name, for a metric stored with an aggregation clause
RenamesOnly(s) ==
    /\ Computed(s, "update_metric")
    /\ pc[s] = "metric_put"
    /\ pc'[s] = "idle"
    /\ result'[s].status = "ok"
    /\ IsGiven(args[s].name)
    /\ ~IsGiven(args[s].aggregation)
    /\ ~IsGiven(args[s].filters)
    /\ Len(AggregationsOf(cards[args[s].metric_id])) > 0
    /\ Len(AggregationsOf(cards[args[s].metric_id])[1]) > 0

\* C19: update_metric given only a name writes one aggregation clause: for
\* a stored wrapped clause, the same clause with the same inner aggregation
\* and the same options except name and display-name, which are the new
\* name; for a stored bare clause, that clause wrapped with the new name.
\* The rest of the stored query is written back unchanged, and the remote
\* stores what was written.  The stored clause is the one the remote holds
\* when the write is sent.
C19_RenameKeepsAggregation ==
    [][\A s \in Slots :
          RenamesOnly(s)
          => LET stored == cards[args[s].metric_id]
                 old == AggregationsOf(stored)[1]
                 new == AggregationsOf(loc[s].payload)
                 n == args[s].name[1]
                 before == stored.dataset_query.query
                 after == loc[s].payload.dataset_query.query
             IN  /\ Len(new) = 1
                 /\ IF IsWrapped(old)
                    THEN /\ Len(new[1]) = Len(old)
                         /\ new[1][1] = "aggregation-options"
                         /\ Unwrap(new[1]) = Unwrap(old)
                         /\ DOMAIN new[1][3]
                              = DOMAIN old[3] \cup {"name", "display-name"}
                         /\ \A k \in DOMAIN new[1][3] :
                               new[1][3][k] = IF k \in {"name", "display-name"}
                                              THEN n ELSE old[3][k]
                    ELSE new[1] = <<"aggregation-options", old, NameOptions(n)>>
                 /\ DOMAIN after = DOMAIN before
                 /\ \A k \in DOMAIN before \ {"aggregation"} :
                       after[k] = before[k]
                 /\ loc[s].payload.name = n
                 /\ AggregationsOf(cards'[args[s].metric_id]) = new
                 /\ cards'[args[s].metric_id].name = n
      ]_vars

\* a rename was written for a stored metric whose named aggregation carries
\* a further option (of the stored metrics only the one whose clause is
\* named "Old" has one): the stored clause and the clause the handler holds
\* now carry the new name and still the option and the inner aggregation
C19_Witness ==
    \E s \in Slots :
        /\ Written(s, "update_metric")
        /\ IsGiven(args[s].name)
        /\ ~IsGiven(args[s].aggregation)
        /\ ~IsGiven(args[s].filters)
        /\ LET clause == AggregationsOf(cards[args[s].metric_id])[1]
           IN  /\ IsWrapped(clause)
               /\ "effective-type" \in DOMAIN clause[3]
               /\ clause[3]["name"] = args[s].name[1]
               /\ clause[3]["name"] # "Old"
               /\ Unwrap(clause) = <<"sum", <<"field", 200, PyNone>>>>
               /\ AggregationsOf(loc[s].current)[1] = clause

\* the metrics the store held before any create_metric call
Preexisting == {1}

\* the card has one aggregation clause, named after the card
Synced(card) ==
    LET aggs == AggregationsOf(card)
    IN  /\ Len(aggs) = 1
        /\ IsWrapped(aggs[1])
        /\ Len(aggs[1]) = 3
        /\ aggs[1][3]["name"] = card.name
        /\ aggs[1][3]["display-name"] = card.name

\* C20: whatever create_metric and update_metric calls have been made, one
\* after the other, a metric made by create_metric has exactly one stored
\* aggregation clause and that clause's name and display-name are the
\* metric's current name.
C20_AnnotationNeverStale ==
    \A id \in DOMAIN cards : id \notin Preexisting => Synced(cards[id])

\* a metric made by create_metric was renamed and given a new aggregation,
\* and a later call that removes the filter was written: the stored metric
\* and the card the handler holds have no filter, and the clause is named
\* after the new name
C20_Witness ==
    \E s \in Slots :
        /\ Written(s, "update_metric")
        /\ ninv = 2
        /\ args[s].metric_id \notin Preexisting
        /\ ~IsGiven(args[s].name)
        /\ ~IsGiven(args[s].aggregation)
        /\ args[s].filters = Given(<<>>)
        /\ "filter" \notin DOMAIN loc[s].current.dataset_query.query
        /\ "filter" \notin DOMAIN cards[args[s].metric_id].dataset_query.query
        /\ cards[args[s].metric_id].name = "MQLs"
        /\ Len(Unwrap(AggregationsOf(cards[args[s].metric_id])[1])) = 2
        /\ Synced(cards[args[s].metric_id])

(* search_metrics_for_table *)

Searched(s) ==
    /\ args[s].tool = "search_metrics_for_table"
    /\ result[s].status = "ok"

StoredQuery(card) == Get(Get(card, "dataset_query", EmptyDict), "query", EmptyDict)

\* the card is tagged as a metric, its stored source-table is table_id and,
\* when a database_id is given, its stored database is database_id
ShouldMatch(a, card) ==
    /\ Get(card, "type", PyNone) = "metric"
    /\ HasKey(StoredQuery(card), "source-table")
    /\ StoredQuery(card)["source-table"] = a.table_id
    /\ IsGiven(a.database_id) =>
          /\ HasKey(Get(card, "dataset_query", EmptyDict), "database")
          /\ card["dataset_query"]["database"] = a.database_id[1]

\* C21: a search that returned reports exactly the stored cards that are
\* metrics over table_id (and over database_id when one is given), in stored
\* order, and an empty list when there is none
C21_SearchReturnsMatching ==
    \A s \in Slots :
        Searched(s) =>
            Ids(result[s].value)
              = Ids(SelectSeq(RemoteListCards(cards),
                              LAMBDA c : ShouldMatch(args[s], c)))

\* create_metric returned in slot "a" and a search on the table of the new
\* metric returned after it in slot "b"
CreatedThenSearched ==
    /\ args["a"].tool = "create_metric"
    /\ result["a"].status = "ok"
    /\ Searched("b")
    /\ args["b"].table_id = args["a"].source_table_id

\* C22: the summary a later search gives of a metric made by create_metric
\* names the kind of the aggregation the metric was created with
C22_SearchReportsCreatedKind ==
    CreatedThenSearched =>
        \A i \in DOMAIN result["b"].value :
            result["b"].value[i].id = result["a"].value["id"] =>
                result["b"].value[i].aggregation_type = args["a"].aggregation[1]

\* C23: the aggregation type of each summary is the first element of the
\* first clause of the stored aggregation list, "unknown" when the list is
\* absent, empty or starts with an empty clause, and a search whose request
\* was answered never fails
C23_AggregationTypeOrUnknown ==
    \A s \in Slots :
        /\ Searched(s) =>
              \A i \in DOMAIN result[s].value :
                  LET query == StoredQuery(cards[result[s].value[i].id])
                      malformed ==
                          \/ ~HasKey(query, "aggregation")
                          \/ query["aggregation"] = <<>>
                          \/ query["aggregation"][1] = <<>>
                  IN  result[s].value[i].aggregation_type
                        = IF malformed THEN "unknown"
                          ELSE query["aggregation"][1][1]
        /\ (args[s].tool = "search_metrics_for_table" /\ result[s].status = "error")
              => ~calls[s][Len(calls[s])].ok

\* a search returned a summary of a metric with no usable aggregation next
\* to a summary of a metric with one
C23_Witness ==
    /\ Searched("b")
    /\ \E i, j \in DOMAIN result["b"].value :
          /\ result["b"].value[i].aggregation_type = "unknown"
          /\ Get(StoredQuery(cards[result["b"].value[i].id]), "aggregation", <<>>)
                = << <<>> >>
          /\ result["b"].value[j].aggregation_type = "sum"

(* create_card_with_metrics *)

\* the handler ended with the validation failure of line 795
ValidationFailure(s) ==
    /\ result[s].status = "error"
    /\ result[s].kind = "raised"

\* C24: a create_card_with_metrics call with a reference that has no id ends
\* with a validation failure and no Gateway call, and a call whose
\* references all have an id does not end with that failure
C24_MissingIdFailsLocally ==
    \A s \in Slots :
        (args[s].tool = "create_card_with_metrics" /\ pc[s] = "idle") =>
            LET lacking == \E i \in DOMAIN args[s].metrics :
                              ~HasKey(args[s].metrics[i], "id")
            IN  /\ lacking => (ValidationFailure(s) /\ calls[s] = <<>>)
                /\ ~lacking => ~ValidationFailure(s)

(* copy_dashboard_tab: parameters and dashcards of the copy *)

\* the source dashcards on the tab being copied
OnSourceTab(s) ==
    SelectSeq(loc[s].source_dash.dashcards,
              LAMBDA dc : HasKey(dc, "dashboard_tab_id")
                          /\ dc.dashboard_tab_id = args[s].tab_id)

\* the source parameters some mapping of those dashcards refers to
UsedSourceParams(s) ==
    SelectSeq(loc[s].source_dash.parameters,
              LAMBDA p : \E dc \in Range(OnSourceTab(s)) :
                            \E m \in Range(dc.parameter_mappings) :
                                m.parameter_id = p.id)

TargetParamIds(s) == Range(Ids(loc[s].target_dash.parameters))

\* X_copy, X_copy_1, X_copy_2, ...
CopyCandidates(x) ==
    << x \o "_copy", x \o "_copy_1", x \o "_copy_2", x \o "_copy_3" >>

\* the first candidate that is not in the set
FirstFree(x, taken) ==
    LET i == CHOOSE j \in DOMAIN CopyCandidates(x) :
                /\ CopyCandidates(x)[j] \notin taken
                /\ \A k \in 1..(j - 1) : CopyCandidates(x)[k] \in taken
    IN  CopyCandidates(x)[i]

\* C25: with include_filters, the parameters copy_dashboard_tab adds are the
\* used source parameters in source order: one whose id is not on the target
\* is added unchanged, one whose id X is on the target is added under the
\* first of X_copy, X_copy_1, X_copy_2, ... that is not an id of the target,
\* with every other field unchanged, and X -> new id is recorded; nothing
\* else is recorded
C25_CollisionRenaming ==
    \A s \in Slots :
        (Computed(s, "copy_dashboard_tab") /\ args[s].include_filters) =>
            LET used == UsedSourceParams(s)
                added == loc[s].params_to_add
                taken == TargetParamIds(s)
            IN  /\ Len(added) = Len(used)
                /\ \A i \in DOMAIN used :
                      IF used[i].id \in taken
                      THEN /\ added[i].id = FirstFree(used[i].id, taken)
                           /\ DOMAIN added[i] = DOMAIN used[i]
                           /\ \A k \in DOMAIN used[i] \ {"id"} :
                                 added[i][k] = used[i][k]
                           /\ HasKey(loc[s].param_id_mapping, used[i].id)
                           /\ loc[s].param_id_mapping[used[i].id] = added[i].id
                      ELSE added[i] = used[i]
                /\ DOMAIN loc[s].param_id_mapping
                     = {used[i].id : i \in DOMAIN used} \cap taken

\* a copy onto a target holding X, X_copy and X_copy_1 added the source's X
\* under X_copy_2 and the source's X_copy under X_copy_copy, and recorded
\* both pairs
C25_Witness ==
    \E s \in Slots :
        /\ Written(s, "copy_dashboard_tab")
        /\ args[s].include_filters
        /\ {"p1", "p1_copy", "p1_copy_1"} \subseteq TargetParamIds(s)
        /\ Ids(loc[s].params_to_add) = <<"p1_copy_2", "p1_copy_copy">>
        /\ loc[s].params_to_add[1].name = "Region"
        /\ loc[s].param_id_mapping["p1"] = "p1_copy_2"
        /\ loc[s].param_id_mapping["p1_copy"] = "p1_copy_copy"

\* C26: every dashcard copy_dashboard_tab builds has as many mappings as its
\* original, in the same order; each carries the new id of its parameter
\* when the parameter was renamed and its own id otherwise, refers to the
\* card of the dashcard that holds it, and is otherwise unchanged
C26_MappingsRewritten ==
    \A s \in Slots :
        Computed(s, "copy_dashboard_tab") =>
            LET originals == OnSourceTab(s)
                renamed == loc[s].param_id_mapping
            IN  \A i \in DOMAIN originals :
                    LET old == originals[i].parameter_mappings
                        new == loc[s].new_dashcards[i].parameter_mappings
                    IN  /\ i \in DOMAIN loc[s].new_dashcards
                        /\ Len(new) = Len(old)
                        /\ \A j \in DOMAIN old :
                              /\ new[j].parameter_id
                                   = IF old[j].parameter_id \in DOMAIN renamed
                                     THEN renamed[old[j].parameter_id]
                                     ELSE old[j].parameter_id
                              /\ new[j].card_id = loc[s].new_dashcards[i].card_id
                              /\ new[j].card_id = originals[i].card_id
                              /\ new[j].target = old[j].target

\* a copy wrote a dashcard with two mappings, the first to a renamed
\* parameter and the second to one that kept its id, the second re-pinned
\* from another card to the card of the dashcard
C26_Witness ==
    \E s \in Slots :
        /\ Written(s, "copy_dashboard_tab")
        /\ DOMAIN loc[s].param_id_mapping = {"p1"}
        /\ \E i \in DOMAIN loc[s].new_dashcards :
              LET old == OnSourceTab(s)[i].parameter_mappings
                  new == loc[s].new_dashcards[i].parameter_mappings
              IN  /\ Len(new) = 2
                  /\ new[1].parameter_id = loc[s].param_id_mapping["p1"]
                  /\ new[2].parameter_id = "p1_copy"
                  /\ old[2].card_id # new[2].card_id
                  /\ new[2].card_id = loc[s].new_dashcards[i].card_id

\* C27: copy_dashboard_tab builds one new dashcard for each source dashcard
\* on the source tab, and for no other, in source order; each keeps the
\* card, row, column, width, height and visualization settings of its
\* original and refers to the new tab, whose id is the id of the tab the
\* same write appends
C27_TabDashcardsCopied ==
    \A s \in Slots :
        Computed(s, "copy_dashboard_tab") =>
            LET originals == OnSourceTab(s)
                new == loc[s].new_dashcards
                w == loc[s].payload
            IN  /\ Len(new) = Len(originals)
                /\ \A i \in DOMAIN originals :
                      /\ \A k \in {"card_id", "row", "col", "size_x", "size_y",
                                   "visualization_settings"} :
                            new[i][k] = originals[i][k]
                      /\ new[i].dashboard_tab_id = w.tabs[Len(w.tabs)].id
                /\ w.tabs[Len(w.tabs)].id = NewTabId(loc[s].target_dash.tabs)
                /\ Suffix(w.dashcards, Len(w.dashcards) - Len(new)) = new

\* a copy wrote two dashcards of the source tab on a new tab, leaving out a
\* source dashcard of another tab
C27_Witness ==
    \E s \in Slots :
        /\ Written(s, "copy_dashboard_tab")
        /\ Len(loc[s].new_dashcards) = 2
        /\ Len(loc[s].source_dash.dashcards) = 3
        /\ Ids(OnSourceTab(s)) = <<11, 12>>
        /\ loc[s].new_dashcards[2].size_x = 8
        /\ loc[s].new_dashcards[2].dashboard_tab_id < -1

(* Order of the Gateway calls of the dashboard tools *)

CompositionTools ==
    {"add_card_to_dashboard", "remove_card_from_dashboard",
     "add_dashboard_filter", "update_dashboard_cards", "copy_dashboard_tab"}

\* C28: at every point of an invocation of a dashboard tool the Gateway
\* calls made so far are reads followed by at most one write, the write
\* being the last call; an invocation returns only after its write; and
\* copy_dashboard_tab reads the source, then the target, and writes to the
\* target
C28_ReadsBeforeSingleWrite ==
    \A s \in Slots :
        Tool(s) \in CompositionTools =>
            LET cs == calls[s]
            IN  /\ Len(PutCalls(s)) <= 1
                /\ \A i \in DOMAIN cs :
                      /\ cs[i].method \in {"GET", "PUT"}
                      /\ cs[i].method = "PUT" => i = Len(cs)
                /\ (pc[s] = "idle" /\ result[s].status = "ok")
                      => /\ Len(cs) > 0
                         /\ cs[Len(cs)].method = "PUT"
                         /\ cs[Len(cs)].ok
                /\ Tool(s) = "copy_dashboard_tab" =>
                      /\ Len(cs) <= 3
                      /\ Len(cs) >= 1 =>
                            /\ cs[1].method = "GET"
                            /\ cs[1].dashboard_id = args[s].source_dashboard_id
                      /\ Len(cs) >= 2 =>
                            /\ cs[2].method = "GET"
                            /\ cs[2].dashboard_id = args[s].target_dashboard_id
                      /\ Len(cs) >= 3 =>
                            /\ cs[3].method = "PUT"
                            /\ cs[3].dashboard_id = args[s].target_dashboard_id

\* a copy from one dashboard to another returned after reading the source,
\* reading the target and writing to the target
C28_Witness ==
    \E s \in Slots :
        /\ Written(s, "copy_dashboard_tab")
        /\ args[s].source_dashboard_id # args[s].target_dashboard_id
        /\ calls[s] = <<Call("GET", args[s].source_dashboard_id, TRUE),
                        Call("GET", args[s].target_dashboard_id, TRUE),
                        Call("PUT", args[s].target_dashboard_id, TRUE)>>
        /\ dash[args[s].target_dashboard_id] # loc[s].target_dash

(* Serialized calls *)

Inserting == {"add_card_to_dashboard", "copy_dashboard_tab"}

\* the call of slot "a" and after it the call of slot "b" both wrote the
\* same dashboard and returned
BothWritten ==
    /\ \E tool \in Inserting : Written("a", tool)
    /\ \E tool \in Inserting : Written("b", tool)
    /\ Target("a") = Target("b")

\* the tab the handler added, if it adds one
TabsAddedBy(s) ==
    IF Tool(s) = "copy_dashboard_tab" THEN <<loc[s].new_tab>> ELSE <<>>

\* C29: when a second add_card_to_dashboard or copy_dashboard_tab call on a
\* dashboard starts after the first has returned and both succeed, the
\* dashboard ends with the dashcards the first call fetched followed by the
\* dashcards added by the first and then by the second call, and with the
\* tabs added by both
C29_SerializedKeepsAll ==
    BothWritten =>
        LET final == dash[Target("a")]
        IN  /\ final.dashcards
                 = FetchedBy("a") \o AddedBy("a") \o AddedBy("b")
            /\ FetchedBy("b") = FetchedBy("a") \o AddedBy("a")
            /\ Len(final.tabs) >= Len(TabsAddedBy("a") \o TabsAddedBy("b"))
            /\ Suffix(final.tabs,
                      Len(final.tabs) - Len(TabsAddedBy("a") \o TabsAddedBy("b")))
                 = TabsAddedBy("a") \o TabsAddedBy("b")
            /\ Tool("a") = "copy_dashboard_tab"
                 => IsPrefix(loc["a"].target_dash.tabs \o TabsAddedBy("a"),
                             final.tabs)

\* a card was inserted, then a tab with dashcards was copied onto the same
\* dashboard, and the dashboard holds the inserted card and the copied tab
C29_Witness ==
    /\ BothWritten
    /\ Tool("a") = "add_card_to_dashboard"
    /\ Tool("b") = "copy_dashboard_tab"
    /\ Len(AddedBy("b")) > 0
    /\ \E i \in DOMAIN dash[Target("a")].dashcards :
          dash[Target("a")].dashcards[i] = loc["a"].new_dashcard
    /\ \E i \in DOMAIN dash[Target("a")].tabs :
          dash[Target("a")].tabs[i] = loc["b"].new_tab

(* MetabaseClient.request *)

\* the HTTP requests sent by the step
SentNow == Suffix(http', Len(http))

LoginsOk(log) == SelectSeq(log, LAMBDA e : e.kind = "login" /\ e.ok)

\* C30: a session client sends an API request only after some login was
\* answered with a success and never within a request whose login was
\* refused, which ends with a failure; it posts a login, and is answered
\* one, only while it holds no session token; once it holds a token it
\* keeps it and sends every later request with it and without a login; a
\* client with an API key never logs in and sends every request with the key
C30_SessionHandling ==
    [][/\ \A i \in DOMAIN SentNow :
             LET e == SentNow[i]
             IN  /\ e.kind = "login"
                      => /\ client.auth_method = "session"
                         /\ ~TruthyToken(client.session_token)
                 /\ (e.kind = "login" /\ ~e.ok)
                      => /\ pc'["a"] = "idle"
                         /\ result'["a"].status = "error"
                         /\ client' = client
                 /\ (e.kind = "api" /\ client.auth_method = "session")
                      => /\ Len(LoginsOk(http)) > 0
                         /\ \A j \in DOMAIN http :
                               (http[j].kind = "login" /\ http[j].n = e.n)
                                   => http[j].ok
                         /\ TruthyToken(client.session_token)
                              => /\ HasKey(e.headers, "X-Metabase-Session")
                                 /\ e.headers["X-Metabase-Session"]
                                      = client.session_token
                         /\ ~HasKey(e.headers, "X-API-KEY")
                 /\ client.auth_method = "api_key"
                      => /\ e.kind = "api"
                         /\ HasKey(e.headers, "X-API-KEY")
                         /\ e.headers["X-API-KEY"] = client.api_key
       /\ (pc["a"] # "request_login" /\ pc'["a"] = "request_login")
            => /\ client.auth_method = "session"
               /\ ~TruthyToken(client.session_token)
       /\ TruthyToken(client.session_token) => client' = client
       /\ client'.auth_method = client.auth_method
      ]_vars

\* a session client logged in within its first request, and sent that
\* request and a later one with the token of that login, with no second
\* login
C30_Witness ==
    /\ client.auth_method = "session"
    /\ Len(http) = 3
    /\ http[1].kind = "login" /\ http[1].ok
    /\ http[2].kind = "api" /\ http[2].n = 1
    /\ http[3].kind = "api" /\ http[3].n = 2
    /\ http[3].headers["X-Metabase-Session"] = "s2"
    /\ client.session_token = "s2"

=============================================================================
